---- MODULE Spec2Model ----
(***************************************************************************)
(* TaskFlow, the running example of the react-learning course: the task    *)
(* list of App with its localStorage persistence and the mock API load     *)
(* (chapter 4), the TaskForm component (chapter 2), and the custom hooks   *)
(* useToggle, useLocalStorage, useTasks and useFilteredTasks (chapter 6).  *)
(* Each component is a state machine over its React state; localStorage    *)
(* is the one object the components share.                                 *)
(***************************************************************************)
EXTENDS Integers, Sequences, FiniteSets, TLC

VARIABLES
    localStorage,    \* the browser's storage: a function from the keys that hold an item to JSON text
    tasks,           \* App: const [tasks, setTasks] = useState<Task[]>(...)
    filter,          \* App and useFilteredTasks: const [filter, setFilter] = useState('all')
    persistPending,  \* App: the effect of useEffect(..., [tasks]) is scheduled and has not run
    lastAction,      \* TaskProvider: the action dispatched last to taskReducer
    title,           \* TaskForm: const [title, setTitle] = useState('')
    onAdd,           \* TaskForm: the titles the onAdd prop was called with, in order
    lastEvent,       \* TaskForm: the DOM event handled last ("none", "change" or "submit")
    toggleInitial,   \* useToggle: the argument initial
    toggleValue,     \* useToggle: const [value, setValue] = useState(initial)
    toggleQueue,     \* useToggle: the updates passed to setValue since the last render
    toggleCalls,     \* useToggle: the calls of toggle / setTrue / setFalse since the mount
    typeParam,       \* useLocalStorage<T>: the type parameter T
    key,             \* useLocalStorage: the argument key of the latest render
    initialValue,    \* useLocalStorage: the argument initialValue
    value,           \* useLocalStorage: const [value, setValue] = useState<T>(...)
    effectPending,   \* useLocalStorage: the effect of useEffect(..., [key, value]) is scheduled
    writeFailed,     \* useLocalStorage: localStorage.setItem threw in the latest run of the effect
    firstRender,     \* useLocalStorage: no render has followed the one of the mount
    lastSet,         \* useLocalStorage: the value the setter was last called with, if any
    filteredTasks,   \* useFilteredTasks: the value memoised by useMemo(..., [tasks, filter])
    counts,          \* useFilteredTasks: the value memoised by useMemo(..., [tasks])
    firstResult,     \* taskReducer: what the first of two evaluations on (state, action) returned
    secondResult,    \* taskReducer: what the second of the two evaluations returned
    themeProvider,   \* ThemeProvider: the listing rendered (chapter 5, chapter 10 or chapter 15)
    theme,           \* ThemeProvider: const [theme, setTheme] = useState(...)
    themeSyncPending, \* ThemeProvider: the effect of useEffect(..., [theme]) is scheduled
    prefersDark,     \* window.matchMedia('(prefers-color-scheme: dark)').matches
    themeCalls,      \* ThemeProvider: the number of calls of toggleTheme / setTheme the user has made
    rootTheme,       \* document.documentElement: the theme its data-theme attribute or classes show
    reducerState,    \* chapter 5: the state { tasks, filter } of useReducer(taskReducer, ...)
    hookTasks,       \* chapter 6: the tasks of useTasks()
    activeDoc,       \* the documentation site: the id of the document shown
    collapsed,       \* the documentation site: for each category label of courseSidebar, whether it is collapsed
    userId,          \* UserProfile: the prop userId of the latest committed render
    user,            \* UserProfile: const [user, setUser] = useState<User | null>(null)
    loading,         \* UserProfile: const [loading, setLoading] = useState(true)
    error,           \* UserProfile: const [error, setError] = useState<string | null>(null)
    fetches,         \* UserProfile: the fetches in flight, each with the cancelled flag of its effect
    fetchCount,      \* UserProfile: the number of fetches made
    profileEffectPending, \* UserProfile: the effect of useEffect(..., [userId]) is scheduled
    profileMounted,  \* UserProfile: the component is mounted
    delivered,       \* UserProfile: the response the last step delivered, if it delivered one
    query,           \* TaskSearch: const [query, setQuery] = useState(""), the value passed to useDebouncedValue
    delayMs,         \* useDebouncedValue: the delayMs passed
    debouncedValue,  \* useDebouncedValue: const [debouncedValue, setDebouncedValue] = useState(value)
    timers,          \* the timers of setTimeout that are pending, each with the value of its closure and the time left
    timer,           \* useDebouncedValue: const timer of the effect that ran last
    debounceEffectPending, \* useDebouncedValue: the effect of useEffect(..., [value, delayMs]) is scheduled
    debounceMounted, \* useDebouncedValue: the component calling it is mounted
    stableFor,       \* the time the value passed has stayed what it is, counted up to MaxDelayMs
    roomId,          \* the chat component: the roomId of the latest committed render
    subscriptions,   \* chatAPI: the rooms of the subscriptions that are active, in the order made
    unsubscribe,     \* the chat component: const unsubscribe of the effect that ran last (the room it ends the subscription to)
    messages,        \* the chat component: the messages of setMessages
    chatEffectPending, \* the chat component: the effect of useEffect(..., [roomId]) is scheduled
    chatMounted,     \* the chat component: it is mounted
    effectKind,      \* the component mounted: the one with the setInterval effect, the resize listener effect, or useOnlineStatus
    strictMode,      \* the component is rendered inside <StrictMode> in development
    mountPhase,      \* where the mount of the component is: setup, teardown, setup again, mounted, unmounted
    mounts,          \* the number of times the component has been mounted
    effectRuns,      \* the number of times the effect has run; the closures of run n are numbered n
    intervals,       \* window: the ids of the intervals of setInterval that are running
    listeners,       \* window: the listeners added with addEventListener and not removed
    seconds,         \* const [seconds, setSeconds] = useState(0)
    width,           \* const [width, setWidth] = useState(window.innerWidth)
    isOnline,        \* useOnlineStatus: const [isOnline, setIsOnline] = useState(navigator.onLine)
    count,           \* the counter: const [count, setCount] = useState(0), as of the latest render
    countQueue,      \* the counter: the updates setCount has queued since the latest render
    lastRender,      \* the counter: the count before the latest render and the updates it applied
    classList,       \* document.documentElement.classList: the classes of the root element
    quickForm,       \* the form submitted: QuickAdd, or the form of createTaskAction
    formTitle,       \* formData.get("title") of the submit handled last
    actionState,     \* useActionState: the state the action returned last (QuickAdd: error; createTaskAction: { error })
    actionPending,   \* the action that is awaiting its timeout or its fetch, with the title it was given
    addTaskCalls,    \* QuickAdd: the tasks addTask of TaskContext has been called with
    posts,           \* createTaskAction: the bodies of the requests POST /api/tasks issued
    fieldTitle,      \* the task form: the text of the title field
    parsedTitle,     \* taskSchema: the title of the data parsed last
    titleIssue,      \* taskSchema: the message of the issue the last parse reported for title, null when it reported none
    conceptsResult,  \* what taskReducer of the Concepts section returned for (state, action)
    projectResult,   \* what taskReducer of the Project Task returned for the same (state, action)
    apiLoading,      \* LoadApiTasks: const [loading, setLoading] = useState(false)
    apiError,        \* LoadApiTasks: const [error, setError] = useState<string | null>(null)
    inFlight,        \* the calls of fetchTasks() that have not settled
    outcomes,        \* the calls of fetchTasks() that have settled, in order: resolved or rejected
    onLoadCalls,     \* LoadApiTasks: the lists onLoad has been called with
    tags,            \* TagManager: const [tags, setTags] = useState<string[]>([...]), as of the latest render
    input,           \* TagManager: const [input, setInput] = useState(''), as of the latest render
    tagUpdates,      \* TagManager: the updates setTags has queued since the latest render
    inputUpdates,    \* TagManager: the values setInput has queued since the latest render
    followed         \* the documentation site: the path of the footer link followed last, while the page at that path is shown

appVars == <<tasks, filter, persistPending, lastAction>>
formVars == <<title, onAdd, lastEvent>>
toggleVars == <<toggleInitial, toggleValue, toggleQueue, toggleCalls>>
hookVars ==
    <<typeParam, key, initialValue, value, effectPending, writeFailed, firstRender, lastSet,
      filteredTasks, counts>>
purityVars ==
    <<firstResult, secondResult>>
themeVars ==
    <<themeProvider, theme, themeSyncPending, prefersDark, themeCalls, rootTheme>>
refactorVars ==
    <<reducerState, hookTasks>>
sidebarVars ==
    <<activeDoc, collapsed>>
profileVars ==
    <<userId, user, loading, error, fetches, fetchCount, profileEffectPending,
      profileMounted, delivered>>
debounceVars ==
    <<query, delayMs, debouncedValue, timers, timer, debounceEffectPending, debounceMounted,
      stableFor>>
chatVars ==
    <<roomId, subscriptions, unsubscribe, messages, chatEffectPending, chatMounted>>
strictVars ==
    <<effectKind, strictMode, mountPhase, mounts, effectRuns, intervals, listeners, seconds,
      width, isOnline>>
counterVars ==
    <<count, countQueue, lastRender>>
rootVars ==
    <<classList>>
quickVars ==
    <<quickForm, formTitle, actionState, actionPending, addTaskCalls, posts>>
schemaVars ==
    <<fieldTitle, parsedTitle, titleIssue>>
listingsVars ==
    <<conceptsResult, projectResult>>
loadVars ==
    <<apiLoading, apiError, inFlight, outcomes, onLoadCalls>>
tagsVars ==
    <<tags, input, tagUpdates, inputUpdates>>
footerVars ==
    <<followed>>
extVars ==
    <<purityVars, themeVars, refactorVars, sidebarVars, profileVars, debounceVars, chatVars,
      strictVars, counterVars, rootVars, quickVars, schemaVars, listingsVars, loadVars,
      tagsVars, footerVars>>
vars == <<localStorage, appVars, formVars, toggleVars, hookVars, extVars>>

\* The type parameters useLocalStorage and JSON.stringify are used at: a
\* string, the Task[] of chapter 4 (createdAt: Date) and the Task[] of
\* chapter 6 (createdAt: string, an ISO date)
TString == "string"
TTasksDate == "Task[] with createdAt: Date"
TTasksIso == "Task[] with createdAt: string"

\* JavaScript's undefined, where a string may stand
UNDEFINED == "<undefined>"

\* The values of the state of a component or hook that is not rendered
NoAction == [type |-> "@@INIT"]
AppUnmounted ==
    tasks = <<>> /\ filter = "all" /\ persistPending = FALSE /\ lastAction = NoAction
FormUnmounted == title = <<>> /\ onAdd = <<>> /\ lastEvent = "none"
ToggleUnmounted ==
    toggleInitial = FALSE /\ toggleValue = FALSE /\ toggleQueue = <<>> /\ toggleCalls = <<>>
HookUnmounted ==
    /\ typeParam = TString /\ key = UNDEFINED /\ initialValue = UNDEFINED /\ value = UNDEFINED
    /\ effectPending = FALSE /\ writeFailed = FALSE /\ firstRender = FALSE /\ lastSet = UNDEFINED
    /\ filteredTasks = <<>> /\ counts = [total |-> 0, active |-> 0, completed |-> 0]

\* The values of the state of the later components when they are not rendered
NoResult == [tasks |-> <<>>, filter |-> "all"]
JsNull == [null |-> TRUE]
\* null, where a string may stand
NullString == "<null>"
NoResponse == [n |-> 0]
\* No timer: what clearTimeout is a no-op on
NoTimer == [left |-> -1]
NoRender == [from |-> 0, updates |-> <<>>]
NoPending == [pending |-> FALSE]
PurityUnmounted ==
    /\ firstResult = NoResult
    /\ secondResult = NoResult
ThemeUnmounted ==
    /\ themeProvider = UNDEFINED
    /\ theme = UNDEFINED
    /\ themeSyncPending = FALSE
    /\ prefersDark = FALSE
    /\ themeCalls = 0
    /\ rootTheme = UNDEFINED
RefactorUnmounted ==
    /\ reducerState = NoResult
    /\ hookTasks = <<>>
SidebarUnmounted ==
    /\ activeDoc = UNDEFINED
    /\ collapsed = <<>>
ProfileUnmounted ==
    /\ userId = UNDEFINED
    /\ user = JsNull
    /\ loading = FALSE
    /\ error = NullString
    /\ fetches = {}
    /\ fetchCount = 0
    /\ profileEffectPending = FALSE
    /\ profileMounted = FALSE
    /\ delivered = NoResponse
DebounceUnmounted ==
    /\ query = UNDEFINED
    /\ delayMs = 0
    /\ debouncedValue = UNDEFINED
    /\ timers = {}
    /\ timer = NoTimer
    /\ debounceEffectPending = FALSE
    /\ debounceMounted = FALSE
    /\ stableFor = 0
ChatUnmounted ==
    /\ roomId = UNDEFINED
    /\ subscriptions = <<>>
    /\ unsubscribe = UNDEFINED
    /\ messages = <<>>
    /\ chatEffectPending = FALSE
    /\ chatMounted = FALSE
StrictUnmounted ==
    /\ effectKind = UNDEFINED
    /\ strictMode = FALSE
    /\ mountPhase = UNDEFINED
    /\ mounts = 0
    /\ effectRuns = 0
    /\ intervals = {}
    /\ listeners = {}
    /\ seconds = 0
    /\ width = 0
    /\ isOnline = FALSE
CounterUnmounted ==
    /\ count = 0
    /\ countQueue = <<>>
    /\ lastRender = NoRender
RootUnmounted ==
    /\ classList = {}
QuickUnmounted ==
    /\ quickForm = UNDEFINED
    /\ formTitle = <<>>
    /\ actionState = NullString
    /\ actionPending = NoPending
    /\ addTaskCalls = <<>>
    /\ posts = <<>>
SchemaUnmounted ==
    /\ fieldTitle = <<>>
    /\ parsedTitle = <<>>
    /\ titleIssue = UNDEFINED
ListingsUnmounted ==
    /\ conceptsResult = NoResult
    /\ projectResult = NoResult
LoadUnmounted ==
    /\ apiLoading = FALSE
    /\ apiError = NullString
    /\ inFlight = 0
    /\ outcomes = <<>>
    /\ onLoadCalls = <<>>
TagsUnmounted ==
    /\ tags = <<>>
    /\ input = <<>>
    /\ tagUpdates = <<>>
    /\ inputUpdates = <<>>
FooterUnmounted ==
    /\ followed = UNDEFINED
ExtUnmounted ==
    /\ PurityUnmounted
    /\ ThemeUnmounted
    /\ RefactorUnmounted
    /\ SidebarUnmounted
    /\ ProfileUnmounted
    /\ DebounceUnmounted
    /\ ChatUnmounted
    /\ StrictUnmounted
    /\ CounterUnmounted
    /\ RootUnmounted
    /\ QuickUnmounted
    /\ SchemaUnmounted
    /\ ListingsUnmounted
    /\ LoadUnmounted
    /\ TagsUnmounted
    /\ FooterUnmounted

\* What the actions of one component leave unchanged of the others
outsideApp == <<formVars, toggleVars, hookVars, extVars>>
outsideForm == <<localStorage, appVars, toggleVars, hookVars, extVars>>
outsideToggle == <<localStorage, appVars, formVars, hookVars, extVars>>
outsideHook == <<tasks, persistPending, lastAction, formVars, toggleVars, extVars>>
outsidePurity ==
    <<localStorage, persistPending, title, onAdd, lastEvent, toggleInitial, toggleValue,
      toggleQueue, toggleCalls, typeParam, key, initialValue, value, effectPending,
      writeFailed, firstRender, lastSet, filteredTasks, counts, themeProvider, theme,
      themeSyncPending, prefersDark, themeCalls, rootTheme, reducerState, hookTasks,
      activeDoc, collapsed, userId, user, loading, error, fetches, fetchCount,
      profileEffectPending, profileMounted, delivered, query, delayMs, debouncedValue,
      timers, timer, debounceEffectPending, debounceMounted, stableFor, roomId,
      subscriptions, unsubscribe, messages, chatEffectPending, chatMounted, effectKind,
      strictMode, mountPhase, mounts, effectRuns, intervals, listeners, seconds, width,
      isOnline, count, countQueue, lastRender, classList, quickForm, formTitle, actionState,
      actionPending, addTaskCalls, posts, fieldTitle, parsedTitle, titleIssue,
      conceptsResult, projectResult, apiLoading, apiError, inFlight, outcomes, onLoadCalls,
      tags, input, tagUpdates, inputUpdates, followed>>
outsideTheme ==
    <<tasks, filter, persistPending, lastAction, title, onAdd, lastEvent, toggleInitial,
      toggleValue, toggleQueue, toggleCalls, typeParam, key, initialValue, value,
      effectPending, writeFailed, firstRender, lastSet, filteredTasks, counts, firstResult,
      secondResult, reducerState, hookTasks, activeDoc, collapsed, userId, user, loading,
      error, fetches, fetchCount, profileEffectPending, profileMounted, delivered, query,
      delayMs, debouncedValue, timers, timer, debounceEffectPending, debounceMounted,
      stableFor, roomId, subscriptions, unsubscribe, messages, chatEffectPending,
      chatMounted, effectKind, strictMode, mountPhase, mounts, effectRuns, intervals,
      listeners, seconds, width, isOnline, count, countQueue, lastRender, classList,
      quickForm, formTitle, actionState, actionPending, addTaskCalls, posts, fieldTitle,
      parsedTitle, titleIssue, conceptsResult, projectResult, apiLoading, apiError, inFlight,
      outcomes, onLoadCalls, tags, input, tagUpdates, inputUpdates, followed>>
outsideRefactor ==
    <<localStorage, tasks, filter, persistPending, lastAction, title, onAdd, lastEvent,
      toggleInitial, toggleValue, toggleQueue, toggleCalls, typeParam, key, initialValue,
      value, effectPending, writeFailed, firstRender, lastSet, filteredTasks, counts,
      firstResult, secondResult, themeProvider, theme, themeSyncPending, prefersDark,
      themeCalls, rootTheme, activeDoc, collapsed, userId, user, loading, error, fetches,
      fetchCount, profileEffectPending, profileMounted, delivered, query, delayMs,
      debouncedValue, timers, timer, debounceEffectPending, debounceMounted, stableFor,
      roomId, subscriptions, unsubscribe, messages, chatEffectPending, chatMounted,
      effectKind, strictMode, mountPhase, mounts, effectRuns, intervals, listeners, seconds,
      width, isOnline, count, countQueue, lastRender, classList, quickForm, formTitle,
      actionState, actionPending, addTaskCalls, posts, fieldTitle, parsedTitle, titleIssue,
      conceptsResult, projectResult, apiLoading, apiError, inFlight, outcomes, onLoadCalls,
      tags, input, tagUpdates, inputUpdates, followed>>
outsideSidebar ==
    <<localStorage, tasks, filter, persistPending, lastAction, title, onAdd, lastEvent,
      toggleInitial, toggleValue, toggleQueue, toggleCalls, typeParam, key, initialValue,
      value, effectPending, writeFailed, firstRender, lastSet, filteredTasks, counts,
      firstResult, secondResult, themeProvider, theme, themeSyncPending, prefersDark,
      themeCalls, rootTheme, reducerState, hookTasks, userId, user, loading, error, fetches,
      fetchCount, profileEffectPending, profileMounted, delivered, query, delayMs,
      debouncedValue, timers, timer, debounceEffectPending, debounceMounted, stableFor,
      roomId, subscriptions, unsubscribe, messages, chatEffectPending, chatMounted,
      effectKind, strictMode, mountPhase, mounts, effectRuns, intervals, listeners, seconds,
      width, isOnline, count, countQueue, lastRender, classList, quickForm, formTitle,
      actionState, actionPending, addTaskCalls, posts, fieldTitle, parsedTitle, titleIssue,
      conceptsResult, projectResult, apiLoading, apiError, inFlight, outcomes, onLoadCalls,
      tags, input, tagUpdates, inputUpdates, followed>>
outsideProfile ==
    <<localStorage, tasks, filter, persistPending, lastAction, title, onAdd, lastEvent,
      toggleInitial, toggleValue, toggleQueue, toggleCalls, typeParam, key, initialValue,
      value, effectPending, writeFailed, firstRender, lastSet, filteredTasks, counts,
      firstResult, secondResult, themeProvider, theme, themeSyncPending, prefersDark,
      themeCalls, rootTheme, reducerState, hookTasks, activeDoc, collapsed, query, delayMs,
      debouncedValue, timers, timer, debounceEffectPending, debounceMounted, stableFor,
      roomId, subscriptions, unsubscribe, messages, chatEffectPending, chatMounted,
      effectKind, strictMode, mountPhase, mounts, effectRuns, intervals, listeners, seconds,
      width, isOnline, count, countQueue, lastRender, classList, quickForm, formTitle,
      actionState, actionPending, addTaskCalls, posts, fieldTitle, parsedTitle, titleIssue,
      conceptsResult, projectResult, apiLoading, apiError, inFlight, outcomes, onLoadCalls,
      tags, input, tagUpdates, inputUpdates, followed>>
outsideDebounce ==
    <<localStorage, tasks, filter, persistPending, lastAction, title, onAdd, lastEvent,
      toggleInitial, toggleValue, toggleQueue, toggleCalls, typeParam, key, initialValue,
      value, effectPending, writeFailed, firstRender, lastSet, filteredTasks, counts,
      firstResult, secondResult, themeProvider, theme, themeSyncPending, prefersDark,
      themeCalls, rootTheme, reducerState, hookTasks, activeDoc, collapsed, userId, user,
      loading, error, fetches, fetchCount, profileEffectPending, profileMounted, delivered,
      roomId, subscriptions, unsubscribe, messages, chatEffectPending, chatMounted,
      effectKind, strictMode, mountPhase, mounts, effectRuns, intervals, listeners, seconds,
      width, isOnline, count, countQueue, lastRender, classList, quickForm, formTitle,
      actionState, actionPending, addTaskCalls, posts, fieldTitle, parsedTitle, titleIssue,
      conceptsResult, projectResult, apiLoading, apiError, inFlight, outcomes, onLoadCalls,
      tags, input, tagUpdates, inputUpdates, followed>>
outsideChat ==
    <<localStorage, tasks, filter, persistPending, lastAction, title, onAdd, lastEvent,
      toggleInitial, toggleValue, toggleQueue, toggleCalls, typeParam, key, initialValue,
      value, effectPending, writeFailed, firstRender, lastSet, filteredTasks, counts,
      firstResult, secondResult, themeProvider, theme, themeSyncPending, prefersDark,
      themeCalls, rootTheme, reducerState, hookTasks, activeDoc, collapsed, userId, user,
      loading, error, fetches, fetchCount, profileEffectPending, profileMounted, delivered,
      query, delayMs, debouncedValue, timers, timer, debounceEffectPending, debounceMounted,
      stableFor, effectKind, strictMode, mountPhase, mounts, effectRuns, intervals,
      listeners, seconds, width, isOnline, count, countQueue, lastRender, classList,
      quickForm, formTitle, actionState, actionPending, addTaskCalls, posts, fieldTitle,
      parsedTitle, titleIssue, conceptsResult, projectResult, apiLoading, apiError, inFlight,
      outcomes, onLoadCalls, tags, input, tagUpdates, inputUpdates, followed>>
outsideStrict ==
    <<localStorage, tasks, filter, persistPending, lastAction, title, onAdd, lastEvent,
      toggleInitial, toggleValue, toggleQueue, toggleCalls, typeParam, key, initialValue,
      value, effectPending, writeFailed, firstRender, lastSet, filteredTasks, counts,
      firstResult, secondResult, themeProvider, theme, themeSyncPending, prefersDark,
      themeCalls, rootTheme, reducerState, hookTasks, activeDoc, collapsed, userId, user,
      loading, error, fetches, fetchCount, profileEffectPending, profileMounted, delivered,
      query, delayMs, debouncedValue, timers, timer, debounceEffectPending, debounceMounted,
      stableFor, roomId, subscriptions, unsubscribe, messages, chatEffectPending,
      chatMounted, count, countQueue, lastRender, classList, quickForm, formTitle,
      actionState, actionPending, addTaskCalls, posts, fieldTitle, parsedTitle, titleIssue,
      conceptsResult, projectResult, apiLoading, apiError, inFlight, outcomes, onLoadCalls,
      tags, input, tagUpdates, inputUpdates, followed>>
outsideCounter ==
    <<localStorage, tasks, filter, persistPending, lastAction, title, onAdd, lastEvent,
      toggleInitial, toggleValue, toggleQueue, toggleCalls, typeParam, key, initialValue,
      value, effectPending, writeFailed, firstRender, lastSet, filteredTasks, counts,
      firstResult, secondResult, themeProvider, theme, themeSyncPending, prefersDark,
      themeCalls, rootTheme, reducerState, hookTasks, activeDoc, collapsed, userId, user,
      loading, error, fetches, fetchCount, profileEffectPending, profileMounted, delivered,
      query, delayMs, debouncedValue, timers, timer, debounceEffectPending, debounceMounted,
      stableFor, roomId, subscriptions, unsubscribe, messages, chatEffectPending,
      chatMounted, effectKind, strictMode, mountPhase, mounts, effectRuns, intervals,
      listeners, seconds, width, isOnline, classList, quickForm, formTitle, actionState,
      actionPending, addTaskCalls, posts, fieldTitle, parsedTitle, titleIssue,
      conceptsResult, projectResult, apiLoading, apiError, inFlight, outcomes, onLoadCalls,
      tags, input, tagUpdates, inputUpdates, followed>>
outsideRoot ==
    <<tasks, filter, persistPending, lastAction, title, onAdd, lastEvent, toggleInitial,
      toggleValue, toggleQueue, toggleCalls, typeParam, key, initialValue, value,
      effectPending, writeFailed, firstRender, lastSet, filteredTasks, counts, firstResult,
      secondResult, reducerState, hookTasks, activeDoc, collapsed, userId, user, loading,
      error, fetches, fetchCount, profileEffectPending, profileMounted, delivered, query,
      delayMs, debouncedValue, timers, timer, debounceEffectPending, debounceMounted,
      stableFor, roomId, subscriptions, unsubscribe, messages, chatEffectPending,
      chatMounted, effectKind, strictMode, mountPhase, mounts, effectRuns, intervals,
      listeners, seconds, width, isOnline, count, countQueue, lastRender, quickForm,
      formTitle, actionState, actionPending, addTaskCalls, posts, fieldTitle, parsedTitle,
      titleIssue, conceptsResult, projectResult, apiLoading, apiError, inFlight, outcomes,
      onLoadCalls, tags, input, tagUpdates, inputUpdates, followed>>
outsideQuick ==
    <<localStorage, tasks, filter, persistPending, lastAction, title, onAdd, lastEvent,
      toggleInitial, toggleValue, toggleQueue, toggleCalls, typeParam, key, initialValue,
      value, effectPending, writeFailed, firstRender, lastSet, filteredTasks, counts,
      firstResult, secondResult, themeProvider, theme, themeSyncPending, prefersDark,
      themeCalls, rootTheme, reducerState, hookTasks, activeDoc, collapsed, userId, user,
      loading, error, fetches, fetchCount, profileEffectPending, profileMounted, delivered,
      query, delayMs, debouncedValue, timers, timer, debounceEffectPending, debounceMounted,
      stableFor, roomId, subscriptions, unsubscribe, messages, chatEffectPending,
      chatMounted, effectKind, strictMode, mountPhase, mounts, effectRuns, intervals,
      listeners, seconds, width, isOnline, count, countQueue, lastRender, classList,
      fieldTitle, parsedTitle, titleIssue, conceptsResult, projectResult, apiLoading,
      apiError, inFlight, outcomes, onLoadCalls, tags, input, tagUpdates, inputUpdates,
      followed>>
outsideSchema ==
    <<localStorage, tasks, filter, persistPending, lastAction, title, onAdd, lastEvent,
      toggleInitial, toggleValue, toggleQueue, toggleCalls, typeParam, key, initialValue,
      value, effectPending, writeFailed, firstRender, lastSet, filteredTasks, counts,
      firstResult, secondResult, themeProvider, theme, themeSyncPending, prefersDark,
      themeCalls, rootTheme, reducerState, hookTasks, activeDoc, collapsed, userId, user,
      loading, error, fetches, fetchCount, profileEffectPending, profileMounted, delivered,
      query, delayMs, debouncedValue, timers, timer, debounceEffectPending, debounceMounted,
      stableFor, roomId, subscriptions, unsubscribe, messages, chatEffectPending,
      chatMounted, effectKind, strictMode, mountPhase, mounts, effectRuns, intervals,
      listeners, seconds, width, isOnline, count, countQueue, lastRender, classList,
      quickForm, formTitle, actionState, actionPending, addTaskCalls, posts, conceptsResult,
      projectResult, apiLoading, apiError, inFlight, outcomes, onLoadCalls, tags, input,
      tagUpdates, inputUpdates, followed>>
outsideListings ==
    <<localStorage, persistPending, title, onAdd, lastEvent, toggleInitial, toggleValue,
      toggleQueue, toggleCalls, typeParam, key, initialValue, value, effectPending,
      writeFailed, firstRender, lastSet, filteredTasks, counts, firstResult, secondResult,
      themeProvider, theme, themeSyncPending, prefersDark, themeCalls, rootTheme,
      reducerState, hookTasks, activeDoc, collapsed, userId, user, loading, error, fetches,
      fetchCount, profileEffectPending, profileMounted, delivered, query, delayMs,
      debouncedValue, timers, timer, debounceEffectPending, debounceMounted, stableFor,
      roomId, subscriptions, unsubscribe, messages, chatEffectPending, chatMounted,
      effectKind, strictMode, mountPhase, mounts, effectRuns, intervals, listeners, seconds,
      width, isOnline, count, countQueue, lastRender, classList, quickForm, formTitle,
      actionState, actionPending, addTaskCalls, posts, fieldTitle, parsedTitle, titleIssue,
      apiLoading, apiError, inFlight, outcomes, onLoadCalls, tags, input, tagUpdates,
      inputUpdates, followed>>
outsideLoad ==
    <<localStorage, tasks, filter, persistPending, lastAction, title, onAdd, lastEvent,
      toggleInitial, toggleValue, toggleQueue, toggleCalls, typeParam, key, initialValue,
      value, effectPending, writeFailed, firstRender, lastSet, filteredTasks, counts,
      firstResult, secondResult, themeProvider, theme, themeSyncPending, prefersDark,
      themeCalls, rootTheme, reducerState, hookTasks, activeDoc, collapsed, userId, user,
      loading, error, fetches, fetchCount, profileEffectPending, profileMounted, delivered,
      query, delayMs, debouncedValue, timers, timer, debounceEffectPending, debounceMounted,
      stableFor, roomId, subscriptions, unsubscribe, messages, chatEffectPending,
      chatMounted, effectKind, strictMode, mountPhase, mounts, effectRuns, intervals,
      listeners, seconds, width, isOnline, count, countQueue, lastRender, classList,
      quickForm, formTitle, actionState, actionPending, addTaskCalls, posts, fieldTitle,
      parsedTitle, titleIssue, conceptsResult, projectResult, tags, input, tagUpdates,
      inputUpdates, followed>>
outsideTags ==
    <<localStorage, tasks, filter, persistPending, lastAction, title, onAdd, lastEvent,
      toggleInitial, toggleValue, toggleQueue, toggleCalls, typeParam, key, initialValue,
      value, effectPending, writeFailed, firstRender, lastSet, filteredTasks, counts,
      firstResult, secondResult, themeProvider, theme, themeSyncPending, prefersDark,
      themeCalls, rootTheme, reducerState, hookTasks, activeDoc, collapsed, userId, user,
      loading, error, fetches, fetchCount, profileEffectPending, profileMounted, delivered,
      query, delayMs, debouncedValue, timers, timer, debounceEffectPending, debounceMounted,
      stableFor, roomId, subscriptions, unsubscribe, messages, chatEffectPending,
      chatMounted, effectKind, strictMode, mountPhase, mounts, effectRuns, intervals,
      listeners, seconds, width, isOnline, count, countQueue, lastRender, classList,
      quickForm, formTitle, actionState, actionPending, addTaskCalls, posts, fieldTitle,
      parsedTitle, titleIssue, conceptsResult, projectResult, apiLoading, apiError, inFlight,
      outcomes, onLoadCalls, followed>>
outsideFooter ==
    <<localStorage, tasks, filter, persistPending, lastAction, title, onAdd, lastEvent,
      toggleInitial, toggleValue, toggleQueue, toggleCalls, typeParam, key, initialValue,
      value, effectPending, writeFailed, firstRender, lastSet, filteredTasks, counts,
      firstResult, secondResult, themeProvider, theme, themeSyncPending, prefersDark,
      themeCalls, rootTheme, reducerState, hookTasks, userId, user, loading, error, fetches,
      fetchCount, profileEffectPending, profileMounted, delivered, query, delayMs,
      debouncedValue, timers, timer, debounceEffectPending, debounceMounted, stableFor,
      roomId, subscriptions, unsubscribe, messages, chatEffectPending, chatMounted,
      effectKind, strictMode, mountPhase, mounts, effectRuns, intervals, listeners, seconds,
      width, isOnline, count, countQueue, lastRender, classList, quickForm, formTitle,
      actionState, actionPending, addTaskCalls, posts, fieldTitle, parsedTitle, titleIssue,
      conceptsResult, projectResult, apiLoading, apiError, inFlight, outcomes, onLoadCalls,
      tags, input, tagUpdates, inputUpdates>>
\* Everything but purityVars is as when not rendered
PurityAlone ==
    /\ localStorage = <<>>
    /\ persistPending = FALSE
    /\ FormUnmounted
    /\ ToggleUnmounted
    /\ HookUnmounted
    /\ ThemeUnmounted
    /\ RefactorUnmounted
    /\ SidebarUnmounted
    /\ ProfileUnmounted
    /\ DebounceUnmounted
    /\ ChatUnmounted
    /\ StrictUnmounted
    /\ CounterUnmounted
    /\ RootUnmounted
    /\ QuickUnmounted
    /\ SchemaUnmounted
    /\ ListingsUnmounted
    /\ LoadUnmounted
    /\ TagsUnmounted
    /\ FooterUnmounted
\* Everything but themeVars is as when not rendered
ThemeAlone ==
    /\ AppUnmounted
    /\ FormUnmounted
    /\ ToggleUnmounted
    /\ HookUnmounted
    /\ PurityUnmounted
    /\ RefactorUnmounted
    /\ SidebarUnmounted
    /\ ProfileUnmounted
    /\ DebounceUnmounted
    /\ ChatUnmounted
    /\ StrictUnmounted
    /\ CounterUnmounted
    /\ RootUnmounted
    /\ QuickUnmounted
    /\ SchemaUnmounted
    /\ ListingsUnmounted
    /\ LoadUnmounted
    /\ TagsUnmounted
    /\ FooterUnmounted
\* Everything but refactorVars is as when not rendered
RefactorAlone ==
    /\ localStorage = <<>>
    /\ AppUnmounted
    /\ FormUnmounted
    /\ ToggleUnmounted
    /\ HookUnmounted
    /\ PurityUnmounted
    /\ ThemeUnmounted
    /\ SidebarUnmounted
    /\ ProfileUnmounted
    /\ DebounceUnmounted
    /\ ChatUnmounted
    /\ StrictUnmounted
    /\ CounterUnmounted
    /\ RootUnmounted
    /\ QuickUnmounted
    /\ SchemaUnmounted
    /\ ListingsUnmounted
    /\ LoadUnmounted
    /\ TagsUnmounted
    /\ FooterUnmounted
\* Everything but sidebarVars is as when not rendered
SidebarAlone ==
    /\ localStorage = <<>>
    /\ AppUnmounted
    /\ FormUnmounted
    /\ ToggleUnmounted
    /\ HookUnmounted
    /\ PurityUnmounted
    /\ ThemeUnmounted
    /\ RefactorUnmounted
    /\ ProfileUnmounted
    /\ DebounceUnmounted
    /\ ChatUnmounted
    /\ StrictUnmounted
    /\ CounterUnmounted
    /\ RootUnmounted
    /\ QuickUnmounted
    /\ SchemaUnmounted
    /\ ListingsUnmounted
    /\ LoadUnmounted
    /\ TagsUnmounted
    /\ FooterUnmounted
\* Everything but profileVars is as when not rendered
ProfileAlone ==
    /\ localStorage = <<>>
    /\ AppUnmounted
    /\ FormUnmounted
    /\ ToggleUnmounted
    /\ HookUnmounted
    /\ PurityUnmounted
    /\ ThemeUnmounted
    /\ RefactorUnmounted
    /\ SidebarUnmounted
    /\ DebounceUnmounted
    /\ ChatUnmounted
    /\ StrictUnmounted
    /\ CounterUnmounted
    /\ RootUnmounted
    /\ QuickUnmounted
    /\ SchemaUnmounted
    /\ ListingsUnmounted
    /\ LoadUnmounted
    /\ TagsUnmounted
    /\ FooterUnmounted
\* Everything but debounceVars is as when not rendered
DebounceAlone ==
    /\ localStorage = <<>>
    /\ AppUnmounted
    /\ FormUnmounted
    /\ ToggleUnmounted
    /\ HookUnmounted
    /\ PurityUnmounted
    /\ ThemeUnmounted
    /\ RefactorUnmounted
    /\ SidebarUnmounted
    /\ ProfileUnmounted
    /\ ChatUnmounted
    /\ StrictUnmounted
    /\ CounterUnmounted
    /\ RootUnmounted
    /\ QuickUnmounted
    /\ SchemaUnmounted
    /\ ListingsUnmounted
    /\ LoadUnmounted
    /\ TagsUnmounted
    /\ FooterUnmounted
\* Everything but chatVars is as when not rendered
ChatAlone ==
    /\ localStorage = <<>>
    /\ AppUnmounted
    /\ FormUnmounted
    /\ ToggleUnmounted
    /\ HookUnmounted
    /\ PurityUnmounted
    /\ ThemeUnmounted
    /\ RefactorUnmounted
    /\ SidebarUnmounted
    /\ ProfileUnmounted
    /\ DebounceUnmounted
    /\ StrictUnmounted
    /\ CounterUnmounted
    /\ RootUnmounted
    /\ QuickUnmounted
    /\ SchemaUnmounted
    /\ ListingsUnmounted
    /\ LoadUnmounted
    /\ TagsUnmounted
    /\ FooterUnmounted
\* Everything but strictVars is as when not rendered
StrictAlone ==
    /\ localStorage = <<>>
    /\ AppUnmounted
    /\ FormUnmounted
    /\ ToggleUnmounted
    /\ HookUnmounted
    /\ PurityUnmounted
    /\ ThemeUnmounted
    /\ RefactorUnmounted
    /\ SidebarUnmounted
    /\ ProfileUnmounted
    /\ DebounceUnmounted
    /\ ChatUnmounted
    /\ CounterUnmounted
    /\ RootUnmounted
    /\ QuickUnmounted
    /\ SchemaUnmounted
    /\ ListingsUnmounted
    /\ LoadUnmounted
    /\ TagsUnmounted
    /\ FooterUnmounted
\* Everything but counterVars is as when not rendered
CounterAlone ==
    /\ localStorage = <<>>
    /\ AppUnmounted
    /\ FormUnmounted
    /\ ToggleUnmounted
    /\ HookUnmounted
    /\ PurityUnmounted
    /\ ThemeUnmounted
    /\ RefactorUnmounted
    /\ SidebarUnmounted
    /\ ProfileUnmounted
    /\ DebounceUnmounted
    /\ ChatUnmounted
    /\ StrictUnmounted
    /\ RootUnmounted
    /\ QuickUnmounted
    /\ SchemaUnmounted
    /\ ListingsUnmounted
    /\ LoadUnmounted
    /\ TagsUnmounted
    /\ FooterUnmounted
\* Everything but rootVars is as when not rendered
RootAlone ==
    /\ AppUnmounted
    /\ FormUnmounted
    /\ ToggleUnmounted
    /\ HookUnmounted
    /\ PurityUnmounted
    /\ RefactorUnmounted
    /\ SidebarUnmounted
    /\ ProfileUnmounted
    /\ DebounceUnmounted
    /\ ChatUnmounted
    /\ StrictUnmounted
    /\ CounterUnmounted
    /\ QuickUnmounted
    /\ SchemaUnmounted
    /\ ListingsUnmounted
    /\ LoadUnmounted
    /\ TagsUnmounted
    /\ FooterUnmounted
\* Everything but quickVars is as when not rendered
QuickAlone ==
    /\ localStorage = <<>>
    /\ AppUnmounted
    /\ FormUnmounted
    /\ ToggleUnmounted
    /\ HookUnmounted
    /\ PurityUnmounted
    /\ ThemeUnmounted
    /\ RefactorUnmounted
    /\ SidebarUnmounted
    /\ ProfileUnmounted
    /\ DebounceUnmounted
    /\ ChatUnmounted
    /\ StrictUnmounted
    /\ CounterUnmounted
    /\ RootUnmounted
    /\ SchemaUnmounted
    /\ ListingsUnmounted
    /\ LoadUnmounted
    /\ TagsUnmounted
    /\ FooterUnmounted
\* Everything but schemaVars is as when not rendered
SchemaAlone ==
    /\ localStorage = <<>>
    /\ AppUnmounted
    /\ FormUnmounted
    /\ ToggleUnmounted
    /\ HookUnmounted
    /\ PurityUnmounted
    /\ ThemeUnmounted
    /\ RefactorUnmounted
    /\ SidebarUnmounted
    /\ ProfileUnmounted
    /\ DebounceUnmounted
    /\ ChatUnmounted
    /\ StrictUnmounted
    /\ CounterUnmounted
    /\ RootUnmounted
    /\ QuickUnmounted
    /\ ListingsUnmounted
    /\ LoadUnmounted
    /\ TagsUnmounted
    /\ FooterUnmounted
\* Everything but listingsVars is as when not rendered
ListingsAlone ==
    /\ localStorage = <<>>
    /\ persistPending = FALSE
    /\ FormUnmounted
    /\ ToggleUnmounted
    /\ HookUnmounted
    /\ PurityUnmounted
    /\ ThemeUnmounted
    /\ RefactorUnmounted
    /\ SidebarUnmounted
    /\ ProfileUnmounted
    /\ DebounceUnmounted
    /\ ChatUnmounted
    /\ StrictUnmounted
    /\ CounterUnmounted
    /\ RootUnmounted
    /\ QuickUnmounted
    /\ SchemaUnmounted
    /\ LoadUnmounted
    /\ TagsUnmounted
    /\ FooterUnmounted
\* Everything but loadVars is as when not rendered
LoadAlone ==
    /\ localStorage = <<>>
    /\ AppUnmounted
    /\ FormUnmounted
    /\ ToggleUnmounted
    /\ HookUnmounted
    /\ PurityUnmounted
    /\ ThemeUnmounted
    /\ RefactorUnmounted
    /\ SidebarUnmounted
    /\ ProfileUnmounted
    /\ DebounceUnmounted
    /\ ChatUnmounted
    /\ StrictUnmounted
    /\ CounterUnmounted
    /\ RootUnmounted
    /\ QuickUnmounted
    /\ SchemaUnmounted
    /\ ListingsUnmounted
    /\ TagsUnmounted
    /\ FooterUnmounted
\* Everything but tagsVars is as when not rendered
TagsAlone ==
    /\ localStorage = <<>>
    /\ AppUnmounted
    /\ FormUnmounted
    /\ ToggleUnmounted
    /\ HookUnmounted
    /\ PurityUnmounted
    /\ ThemeUnmounted
    /\ RefactorUnmounted
    /\ SidebarUnmounted
    /\ ProfileUnmounted
    /\ DebounceUnmounted
    /\ ChatUnmounted
    /\ StrictUnmounted
    /\ CounterUnmounted
    /\ RootUnmounted
    /\ QuickUnmounted
    /\ SchemaUnmounted
    /\ ListingsUnmounted
    /\ LoadUnmounted
    /\ FooterUnmounted
\* Everything but footerVars is as when not rendered
FooterAlone ==
    /\ localStorage = <<>>
    /\ AppUnmounted
    /\ FormUnmounted
    /\ ToggleUnmounted
    /\ HookUnmounted
    /\ PurityUnmounted
    /\ ThemeUnmounted
    /\ RefactorUnmounted
    /\ ProfileUnmounted
    /\ DebounceUnmounted
    /\ ChatUnmounted
    /\ StrictUnmounted
    /\ CounterUnmounted
    /\ RootUnmounted
    /\ QuickUnmounted
    /\ SchemaUnmounted
    /\ ListingsUnmounted
    /\ LoadUnmounted
    /\ TagsUnmounted
\* The frames end here

----------------------------------------------------------------------------
(* Bounds of the model *)

\* crypto.randomUUID() draws from "u1" .. "u<MaxUuid>"
MaxUuid == 1
\* The longest text typed into the input of TaskForm
MaxTitleLen == 3
\* The most calls of onAdd a run of TaskForm makes
MaxCalls == 2
\* The most calls of toggle / setTrue / setFalse a run of useToggle makes
MaxToggleCalls == 4
\* The longest LOAD_TASKS payload besides the list of the mock API
MaxPayload == 2
\* The longest task list taskReducer is applied to
MaxReducerTasks == 4
\* The most tasks useTasks holds; crypto.randomUUID() gives it "t1" .. "t<MaxHookTasks>"
MaxHookTasks == 2

----------------------------------------------------------------------------
(* Strings, dates and JSON text *)

UUIDs == {"u" \o ToString(i) : i \in 1..MaxUuid}

\* The ids crypto.randomUUID() gives useTasks
HookIds == {"t" \o ToString(i) : i \in 1..MaxHookTasks}

\* The titles updateTask renames a task to
UpdateTitles == {"Renamed"}

\* The titles a user submits through TaskForm
Titles == {"Write tests"}

\* new Date(): the clock of the browser
Clock == {"2026-02-05"}

\* A Date object is [iso |-> <its toISOString()>]; the Invalid Date has no ISO form
InvalidDate == [iso |-> "Invalid Date"]

FieldNames == {"id", "title", "completed", "createdAt"}

IsoDates == {"2026-01-15", "2026-02-01", "2026-02-02", "2026-02-03", "2026-02-04"} \cup Clock

\* new Date(s) for a string s: a date when s is a date string, else the Invalid Date
NewDate(s) == IF s \in IsoDates THEN [iso |-> s] ELSE InvalidDate

MOCK_TASKS ==
    << [id |-> "api-1", title |-> "Review pull request", completed |-> FALSE, createdAt |-> NewDate("2026-02-04")],
       [id |-> "api-2", title |-> "Update documentation", completed |-> TRUE, createdAt |-> NewDate("2026-02-03")],
       [id |-> "api-3", title |-> "Fix login bug", completed |-> FALSE, createdAt |-> NewDate("2026-02-02")] >>

\* The two tasks App starts with when loadTasks() returns nothing
SEED_TASKS ==
    << [id |-> "1", title |-> "Learn React fundamentals", completed |-> TRUE, createdAt |-> NewDate("2026-01-15")],
       [id |-> "2", title |-> "Build TaskFlow app", completed |-> FALSE, createdAt |-> NewDate("2026-02-01")] >>

Range(s) == {s[i] : i \in DOMAIN s}

\* Every string a JSON string literal of this model can hold
Strings ==
    UUIDs \cup HookIds \cup Titles \cup UpdateTitles \cup IsoDates \cup FieldNames
    \cup {t.id : t \in Range(MOCK_TASKS) \cup Range(SEED_TASKS)}
    \cup {t.title : t \in Range(MOCK_TASKS) \cup Range(SEED_TASKS)}
    \cup {"default", "fallback", "new value", "stored value"}

\* JSON text is a sequence of tokens; a string literal is the string in double quotes
Quote(s) == "\"" \o s \o "\""
StringTokens == {Quote(s) : s \in Strings}
Unquote(tok) == CHOOSE s \in Strings : Quote(s) = tok

\* Date.prototype.toJSON: the ISO string, or null for the Invalid Date
DateToJSON(d) == IF d = InvalidDate THEN "null" ELSE Quote(d.iso)

\* JSON.stringify of one Task object: its own properties in insertion order
StringifyTask(T, t) ==
    << "{", Quote("id"), ":", Quote(t.id), ",",
            Quote("title"), ":", Quote(t.title), ",",
            Quote("completed"), ":", IF t.completed THEN "true" ELSE "false", ",",
            Quote("createdAt"), ":",
            IF T = TTasksDate THEN DateToJSON(t.createdAt) ELSE Quote(t.createdAt), "}" >>

RECURSIVE StringifyElements(_, _)
StringifyElements(T, ts) ==
    IF ts = <<>> THEN <<>>
    ELSE IF Len(ts) = 1 THEN StringifyTask(T, ts[1])
    ELSE StringifyTask(T, ts[1]) \o <<",">> \o StringifyElements(T, Tail(ts))

\* JSON.stringify(value) at the type parameter T of the caller
JsonStringify(T, v) ==
    IF T = TString THEN << Quote(v) >>
    ELSE <<"[">> \o StringifyElements(T, v) \o <<"]">>

\* JSON.parse: a recursive-descent parser over the tokens. A result is
\* [ok, type, val, next]; ok = FALSE stands for the SyntaxError it throws.
ParseFail == [ok |-> FALSE]

RECURSIVE ParseValue(_, _), ParseElements(_, _, _), ParseMembers(_, _, _)
ParseValue(toks, i) ==
    IF i > Len(toks) THEN ParseFail
    ELSE LET tk == toks[i] IN
         CASE tk \in StringTokens ->
                [ok |-> TRUE, type |-> "string", val |-> Unquote(tk), next |-> i + 1]
           [] tk = "true" -> [ok |-> TRUE, type |-> "boolean", val |-> TRUE, next |-> i + 1]
           [] tk = "false" -> [ok |-> TRUE, type |-> "boolean", val |-> FALSE, next |-> i + 1]
           [] tk = "null" -> [ok |-> TRUE, type |-> "null", val |-> JsNull, next |-> i + 1]
           [] tk = "[" ->
                IF i + 1 <= Len(toks) /\ toks[i + 1] = "]"
                THEN [ok |-> TRUE, type |-> "array", val |-> <<>>, next |-> i + 2]
                ELSE ParseElements(toks, i + 1, <<>>)
           [] tk = "{" ->
                IF i + 1 <= Len(toks) /\ toks[i + 1] = "}"
                THEN [ok |-> TRUE, type |-> "object", val |-> <<>>, next |-> i + 2]
                ELSE ParseMembers(toks, i + 1, <<>>)
           [] OTHER -> ParseFail

ParseElements(toks, i, acc) ==
    LET r == ParseValue(toks, i) IN
    IF ~r.ok \/ r.next > Len(toks) THEN ParseFail
    ELSE IF toks[r.next] = "," THEN ParseElements(toks, r.next + 1, Append(acc, r.val))
    ELSE IF toks[r.next] = "]"
         THEN [ok |-> TRUE, type |-> "array", val |-> Append(acc, r.val), next |-> r.next + 1]
    ELSE ParseFail

ParseMembers(toks, i, acc) ==
    IF i + 1 > Len(toks) \/ toks[i] \notin StringTokens \/ toks[i + 1] # ":" THEN ParseFail
    ELSE LET r == ParseValue(toks, i + 2) IN
         IF ~r.ok \/ r.next > Len(toks) THEN ParseFail
         ELSE LET obj == (Unquote(toks[i]) :> r.val) @@ acc IN
              IF toks[r.next] = "," THEN ParseMembers(toks, r.next + 1, obj)
              ELSE IF toks[r.next] = "}"
                   THEN [ok |-> TRUE, type |-> "object", val |-> obj, next |-> r.next + 1]
              ELSE ParseFail

JsonParse(text) ==
    LET r == ParseValue(text, 1) IN
    IF r.ok /\ r.next = Len(text) + 1 THEN r ELSE ParseFail

\* Text that is no JSON: the "not-valid-json" of the useLocalStorage test
CorruptText == << "not-valid-json" >>

----------------------------------------------------------------------------
(* localStorage *)

STORAGE_KEY == "taskflow-tasks"

\* localStorage.getItem(k) !== null
HasItem(k) == k \in DOMAIN localStorage
\* localStorage.setItem(k, text)
SetItem(k, text) == (k :> text) @@ localStorage

----------------------------------------------------------------------------
(* App with persistence (chapter 4, Step 1) *)

\* loadTasks(): [] when nothing (or the empty string) is stored or anything
\* throws, else the parsed array with each createdAt turned into a Date
loadTasks ==
    IF ~HasItem(STORAGE_KEY) \/ localStorage[STORAGE_KEY] = <<>> THEN <<>>
    ELSE LET parsed == JsonParse(localStorage[STORAGE_KEY]) IN
         IF ~parsed.ok \/ parsed.type # "array" THEN <<>>
         ELSE [i \in DOMAIN parsed.val |->
                 [parsed.val[i] EXCEPT !.createdAt = NewDate(@)]]

\* The lazy initialiser of useState: the loaded tasks, or the two seed tasks
InitialTasks ==
    LET loaded == loadTasks IN
    IF Len(loaded) > 0 THEN loaded ELSE SEED_TASKS

\* crypto.randomUUID(): an id no task on the page or in storage carries
FreshUuids == UUIDs \ ({t.id : t \in Range(tasks)} \cup {t.id : t \in Range(InitialTasks)})

\* const filteredTasks = filter === 'all' ? tasks : tasks.filter(...)
AppFilteredTasks(ts, f) ==
    IF f = "all" THEN ts
    ELSE LET Keep(t) == IF f = "completed" THEN t.completed ELSE ~t.completed
         IN SelectSeq(ts, Keep)

\* const activeCount = tasks.filter((t) => !t.completed).length
AppActiveCount(ts) == LET Keep(t) == ~t.completed IN Len(SelectSeq(ts, Keep))

\* setTasks((prev) => [{ id, title, completed: false, createdAt }, ...prev])
PrependTask(prev, id, taskTitle, now) ==
    << [id |-> id, title |-> taskTitle, completed |-> FALSE, createdAt |-> now] >> \o prev

\* A toggle that marks the task completed instead of negating the flag
ToggleByIdSetCompleted(prev, id) ==
    [i \in DOMAIN prev |-> IF prev[i].id = id
                           THEN [prev[i] EXCEPT !.completed = TRUE]
                           ELSE prev[i]]
\* prev.map((t) => (t.id === id ? { ...t, completed: !t.completed } : t))
ToggleById(prev, id) ==
    [i \in DOMAIN prev |-> IF prev[i].id = id
                           THEN [prev[i] EXCEPT !.completed = ~@]
                           ELSE prev[i]]

\* prev.filter((t) => t.id !== id)
DeleteById(prev, id) == LET Keep(t) == t.id # id IN SelectSeq(prev, Keep)

\* onLoad / LOAD_TASKS: the API tasks whose id no existing task has, then the existing tasks
MergeLoaded(prev, apiTasks) ==
    LET existingIds == {t.id : t \in Range(prev)}
        Keep(t) == t.id \notin existingIds
    IN SelectSeq(apiTasks, Keep) \o prev

\* The ids of the TaskCards on the page: TaskList renders filteredTasks
RenderedIds == {t.id : t \in Range(AppFilteredTasks(tasks, filter))}

AppInit ==
    /\ localStorage \in {<<>>, STORAGE_KEY :> CorruptText}
    /\ tasks = InitialTasks
    /\ filter = "all"
    /\ persistPending = TRUE
    /\ lastAction = NoAction
    /\ FormUnmounted /\ ToggleUnmounted /\ HookUnmounted /\ ExtUnmounted

\* useEffect(() => { localStorage.setItem(STORAGE_KEY, JSON.stringify(tasks)) }, [tasks])
PersistEffect ==
    /\ persistPending
    /\ localStorage' = SetItem(STORAGE_KEY, JsonStringify(TTasksDate, tasks))
    /\ persistPending' = FALSE
    /\ UNCHANGED <<tasks, filter, lastAction, outsideApp>>

\* TaskForm's onAdd
addTask ==
    /\ ~persistPending
    /\ \E taskTitle \in Titles, id \in FreshUuids, now \in Clock :
          tasks' = PrependTask(tasks, id, taskTitle, NewDate(now))
    /\ persistPending' = TRUE
    /\ UNCHANGED <<localStorage, filter, lastAction, outsideApp>>

\* TaskCard's onToggle
toggleTask ==
    /\ ~persistPending
    /\ \E id \in RenderedIds : tasks' = ToggleById(tasks, id)
    /\ persistPending' = TRUE
    /\ UNCHANGED <<localStorage, filter, lastAction, outsideApp>>

\* TaskCard's onDelete
deleteTask ==
    /\ ~persistPending
    /\ \E id \in RenderedIds : tasks' = DeleteById(tasks, id)
    /\ persistPending' = TRUE
    /\ UNCHANGED <<localStorage, filter, lastAction, outsideApp>>

\* TaskFilters' onChange
setFilter ==
    /\ ~persistPending
    /\ \E f \in {"all", "active", "completed"} : f # filter /\ filter' = f
    /\ UNCHANGED <<localStorage, tasks, persistPending, lastAction, outsideApp>>

\* LoadApiTasks' onLoad, called with what fetchTasks() resolved to
onLoad ==
    /\ ~persistPending
    /\ tasks' = MergeLoaded(tasks, MOCK_TASKS)
    /\ persistPending' = TRUE
    /\ UNCHANGED <<localStorage, filter, lastAction, outsideApp>>

\* A page refresh: every component state is initialised anew from localStorage
reloadPage ==
    /\ tasks' = InitialTasks
    /\ filter' = "all"
    /\ persistPending' = TRUE
    /\ UNCHANGED <<localStorage, lastAction, outsideApp>>

AppNext ==
    \/ PersistEffect
    \/ addTask
    \/ toggleTask
    \/ deleteTask
    \/ setFilter
    \/ onLoad
    \/ reloadPage

SpecApp == AppInit /\ [][AppNext]_vars

----------------------------------------------------------------------------
(* Claims about App *)

\* What the claims compare of a task list: ids, titles, completed flags, in order
TaskView(ts) == [i \in DOMAIN ts |-> <<ts[i].id, ts[i].title, ts[i].completed>>]

\* C1: once the persist effect has written the tasks to localStorage, a page
\* reload (the lazy initialiser run on the stored text) yields the task list
\* the page showed before: same ids, titles, completed flags and order.
C1_TasksPersistAcrossRefresh ==
    ~persistPending => TaskView(InitialTasks) = TaskView(tasks)

----------------------------------------------------------------------------
(* TaskForm (chapter 2, Step 2). The text of the input is a sequence of     *)
(* characters, so that trim() is computed on it.                            *)

Chars == {" ", "a"}
IsWhitespace(c) == c = " "

RECURSIVE SeqsUpTo(_)
\* Every text of at most n characters
SeqsUpTo(n) ==
    IF n = 0 THEN {<<>>}
    ELSE LET shorter == SeqsUpTo(n - 1)
         IN shorter \cup {Append(s, c) : s \in shorter, c \in Chars}

InputTexts == SeqsUpTo(MaxTitleLen)

RECURSIVE TrimStart(_), TrimEnd(_)
TrimStart(s) == IF s # <<>> /\ IsWhitespace(Head(s)) THEN TrimStart(Tail(s)) ELSE s
TrimEnd(s) ==
    IF s # <<>> /\ IsWhitespace(s[Len(s)]) THEN TrimEnd(SubSeq(s, 1, Len(s) - 1)) ELSE s

\* String.prototype.trim
Trim(s) == TrimEnd(TrimStart(s))

FormInit ==
    /\ title = <<>>
    /\ onAdd = <<>>
    /\ lastEvent = "none"
    /\ localStorage = <<>>
    /\ AppUnmounted /\ ToggleUnmounted /\ HookUnmounted /\ ExtUnmounted

\* onChange={(e) => setTitle(e.target.value)}
handleChange ==
    /\ \E text \in InputTexts : title' = text
    /\ lastEvent' = "change"
    /\ UNCHANGED <<onAdd, outsideForm>>

\* handleSubmit without its return on a blank title
SubmitResultNoGuard(t, calls) == [title |-> <<>>, onAdd |-> Append(calls, Trim(t))]

\* handleSubmit without its setTitle('')
SubmitResultNoClear(t, calls) ==
    IF Trim(t) = <<>> THEN [title |-> t, onAdd |-> calls]
    ELSE [title |-> t, onAdd |-> Append(calls, Trim(t))]

\* What handleSubmit leaves in title and onAdd, given what they hold
SubmitResult(t, calls) ==
    LET trimmed == Trim(t) IN
    IF trimmed = <<>> THEN [title |-> t, onAdd |-> calls]
    ELSE [title |-> <<>>, onAdd |-> Append(calls, trimmed)]

\* handleSubmit: e.preventDefault(); return on a blank title; onAdd(trimmed); setTitle('')
handleSubmit ==
    /\ Len(onAdd) < MaxCalls
    /\ title' = SubmitResult(title, onAdd).title
    /\ onAdd' = SubmitResult(title, onAdd).onAdd
    /\ lastEvent' = "submit"
    /\ UNCHANGED outsideForm

FormNext == handleChange \/ handleSubmit

SpecForm == FormInit /\ [][FormNext]_vars

----------------------------------------------------------------------------
(* Claims about TaskForm *)

\* C5: TaskForm never calls onAdd with an empty or whitespace-only title:
\* whenever a step adds a call, the title passed is the trimmed text of the
\* input and is not empty; no other step changes the calls.
C5_NoBlankSubmit ==
    [][onAdd' # onAdd =>
          /\ Trim(title) # <<>>
          /\ onAdd' = Append(onAdd, Trim(title))]_vars

\* C5 witness: a submit of a whitespace-only text was handled after an
\* accepted one, and onAdd holds no blank title
C5_Witness ==
    /\ lastEvent = "submit"
    /\ title # <<>>
    /\ Trim(title) = <<>>
    /\ Len(onAdd) = 1

\* C6 as stated: a submit of a non-blank input calls onAdd once with the
\* entered title, and the input is empty afterwards
C6_SubmitEnteredTitle ==
    [][(lastEvent' = "submit" /\ lastEvent # "submit" /\ Trim(title) # <<>>) =>
          /\ onAdd' = Append(onAdd, title)
          /\ title' = <<>>]_vars

\* C6 amended: a submit of a non-blank input calls onAdd exactly once, with
\* the entered title trimmed of the whitespace around it, and the input is
\* empty afterwards
C6_SubmitTrimmedTitle ==
    [][(lastEvent' = "submit" /\ lastEvent # "submit" /\ Trim(title) # <<>>) =>
          /\ onAdd' = Append(onAdd, Trim(title))
          /\ title' = <<>>]_vars

\* C6 witness: a text with whitespace around it was submitted and cleared
C6_Witness ==
    /\ lastEvent = "submit"
    /\ title = <<>>
    /\ onAdd = << <<"a", " ", "a">>, <<"a">> >>

----------------------------------------------------------------------------
(* useToggle (chapter 6, Example 3). setValue queues its argument; the next *)
(* render applies the queue, in order, to the state.                        *)

\* An update of the queue: "not" is the updater v => !v, "true" and "false"
\* are the values setValue was called with
ApplyUpdate(v, update) ==
    CASE update = "not" -> ~v
      [] update = "true" -> TRUE
      [] update = "false" -> FALSE

RECURSIVE ApplyQueue(_, _)
ApplyQueue(v, queue) ==
    IF queue = <<>> THEN v ELSE ApplyQueue(ApplyUpdate(v, Head(queue)), Tail(queue))

\* toggle written as setValue(!value): the value of the render it closes over
ToggleUpdateFromRender(rendered) == IF rendered THEN "false" ELSE "true"

\* toggle = useCallback(() => setValue(v => !v), []): what it passes to setValue
ToggleUpdate(rendered) == "not"

ToggleInit ==
    /\ toggleInitial \in BOOLEAN
    /\ toggleValue = toggleInitial
    /\ toggleQueue = <<>>
    /\ toggleCalls = <<>>
    /\ localStorage = <<>>
    /\ AppUnmounted /\ FormUnmounted /\ HookUnmounted /\ ExtUnmounted

toggle ==
    /\ Len(toggleCalls) < MaxToggleCalls
    /\ toggleQueue' = Append(toggleQueue, ToggleUpdate(toggleValue))
    /\ toggleCalls' = Append(toggleCalls, "toggle")
    /\ UNCHANGED <<toggleInitial, toggleValue, outsideToggle>>

\* setTrue = useCallback(() => setValue(true), [])
setTrue ==
    /\ Len(toggleCalls) < MaxToggleCalls
    /\ toggleQueue' = Append(toggleQueue, "true")
    /\ toggleCalls' = Append(toggleCalls, "setTrue")
    /\ UNCHANGED <<toggleInitial, toggleValue, outsideToggle>>

\* setFalse = useCallback(() => setValue(false), [])
setFalse ==
    /\ Len(toggleCalls) < MaxToggleCalls
    /\ toggleQueue' = Append(toggleQueue, "false")
    /\ toggleCalls' = Append(toggleCalls, "setFalse")
    /\ UNCHANGED <<toggleInitial, toggleValue, outsideToggle>>

\* The render React schedules after setValue: useState returns the queue applied to the state
toggleRender ==
    /\ toggleQueue # <<>>
    /\ toggleValue' = ApplyQueue(toggleValue, toggleQueue)
    /\ toggleQueue' = <<>>
    /\ UNCHANGED <<toggleInitial, toggleCalls, outsideToggle>>

ToggleNext == toggle \/ setTrue \/ setFalse \/ toggleRender

SpecToggle == ToggleInit /\ [][ToggleNext]_vars

----------------------------------------------------------------------------
(* Claims about useToggle *)

\* The value the claim gives after the calls: toggle negates, setTrue and
\* setFalse set
RECURSIVE ValueAfter(_, _)
ValueAfter(initial, calls) ==
    IF calls = <<>> THEN initial
    ELSE LET before == ValueAfter(initial, SubSeq(calls, 1, Len(calls) - 1))
             call == calls[Len(calls)]
         IN IF call = "toggle" THEN ~before ELSE call = "setTrue"

EndsWithTwoToggles(calls) ==
    /\ Len(calls) >= 2
    /\ calls[Len(calls)] = "toggle"
    /\ calls[Len(calls) - 1] = "toggle"

\* C9: useToggle starts with the initial value; once rendered, the value is
\* the initial value with every toggle() negating it and every setTrue() /
\* setFalse() setting it to true / false; two consecutive toggle() calls
\* leave the value that held before them.
C9_UseToggle ==
    /\ toggleCalls = <<>> => toggleValue = toggleInitial
    /\ toggleQueue = <<>> => toggleValue = ValueAfter(toggleInitial, toggleCalls)
    /\ (toggleQueue = <<>> /\ EndsWithTwoToggles(toggleCalls)) =>
          toggleValue = ValueAfter(toggleInitial, SubSeq(toggleCalls, 1, Len(toggleCalls) - 2))

\* C9 witness: two toggle() calls were made in one batch after a setTrue()
\* and the hook has rendered
C9_Witness ==
    /\ toggleCalls = <<"setTrue", "toggle", "toggle">>
    /\ toggleQueue = <<>>
    /\ toggleInitial = FALSE
    /\ toggleValue = TRUE

----------------------------------------------------------------------------
(* useLocalStorage (chapter 6, Step 1) *)

\* What the lazy initialiser stands for when an exception escapes it
THROWN == "<thrown>"

\* The lazy initialiser without its try / catch
LazyInitNoCatch(k, initial) ==
    IF HasItem(k)
    THEN LET parsed == JsonParse(localStorage[k]) IN IF parsed.ok THEN parsed.val ELSE THROWN
    ELSE initial

\* The lazy initialiser without the read of localStorage
LazyInitNoRead(k, initial) == initial

\* The lazy initialiser of useState: the parsed item when there is one and it
\* parses, else initialValue
LazyInit(k, initial) ==
    IF HasItem(k)
    THEN LET parsed == JsonParse(localStorage[k]) IN IF parsed.ok THEN parsed.val ELSE initial
    ELSE initial

\* The dependency array written [value]
DepsChangedValueOnly(oldKey, newKey, oldValue, newValue) == oldValue # newValue

\* The dependency array [key, value]: the effect runs again when either changed
DepsChanged(oldKey, newKey, oldValue, newValue) == oldKey # newKey \/ oldValue # newValue

\* The effect without its try / catch: what setItem throws escapes the
\* effect, and the component is gone
runEffectNoCatch ==
    /\ effectPending
    /\ effectPending' = FALSE
    /\ \/ /\ localStorage' = SetItem(key, JsonStringify(typeParam, value))
          /\ writeFailed' = FALSE
          /\ value' = value
       \/ /\ localStorage' = localStorage
          /\ writeFailed' = TRUE
          /\ value' = THROWN
    /\ UNCHANGED <<typeParam, key, initialValue, firstRender, lastSet,
                   filter, filteredTasks, counts, outsideHook>>

\* useEffect(() => { try { localStorage.setItem(key, JSON.stringify(value)) } catch {} }, [key, value]):
\* setItem stores the text, or throws and leaves the storage as it is
runEffect ==
    /\ effectPending
    /\ effectPending' = FALSE
    /\ \/ /\ localStorage' = SetItem(key, JsonStringify(typeParam, value))
          /\ writeFailed' = FALSE
       \/ /\ localStorage' = localStorage
          /\ writeFailed' = TRUE
    /\ UNCHANGED <<typeParam, key, initialValue, value, firstRender, lastSet,
                   filter, filteredTasks, counts, outsideHook>>

Keys == {"key", "other"}
HookStrings == {"default", "new value", "stored value"}

\* What localStorage holds when the hook mounts: under each key nothing, text
\* that is no JSON, the empty string or the JSON of a string
StoredTexts == {CorruptText, <<>>} \cup {JsonStringify(TString, v) : v \in {"stored value"}}
InitialStorages ==
    UNION {[held -> StoredTexts] : held \in SUBSET Keys}

LocalStorageInit ==
    /\ typeParam = TString
    /\ key \in Keys
    /\ initialValue \in {"default", "fallback"}
    /\ localStorage \in InitialStorages
    /\ value = LazyInit(key, initialValue)
    /\ effectPending = TRUE
    /\ writeFailed = FALSE
    /\ firstRender = TRUE
    /\ lastSet = UNDEFINED
    /\ filter = "all"
    /\ filteredTasks = <<>>
    /\ counts = [total |-> 0, active |-> 0, completed |-> 0]
    /\ tasks = <<>> /\ persistPending = FALSE /\ lastAction = NoAction
    /\ FormUnmounted /\ ToggleUnmounted /\ ExtUnmounted

\* The setter, called with a value
setValue ==
    /\ ~effectPending
    /\ \E v \in HookStrings :
          /\ value' = v
          /\ lastSet' = v
          /\ effectPending' = DepsChanged(key, key, value, v)
    /\ firstRender' = FALSE
    /\ UNCHANGED <<localStorage, typeParam, key, initialValue, writeFailed,
                   filter, filteredTasks, counts, outsideHook>>

\* A render of the calling component that passes another key
rerenderWithKey ==
    /\ ~effectPending
    /\ \E k \in Keys \ {key} :
          /\ key' = k
          /\ effectPending' = DepsChanged(key, k, value, value)
    /\ firstRender' = FALSE
    /\ UNCHANGED <<localStorage, typeParam, initialValue, value, writeFailed, lastSet,
                   filter, filteredTasks, counts, outsideHook>>

\* The component unmounts and mounts again (a page reload): the state is initialised anew
remount ==
    /\ value' = LazyInit(key, initialValue)
    /\ effectPending' = TRUE
    /\ writeFailed' = FALSE
    /\ firstRender' = TRUE
    /\ lastSet' = UNDEFINED
    /\ UNCHANGED <<localStorage, typeParam, key, initialValue,
                   filter, filteredTasks, counts, outsideHook>>

LocalStorageNext == runEffect \/ setValue \/ rerenderWithKey \/ remount

SpecLocalStorage == LocalStorageInit /\ [][LocalStorageNext]_vars

----------------------------------------------------------------------------
(* Claims about useLocalStorage *)

\* The item under the current key is there and parses
StoredParses == HasItem(key) /\ JsonParse(localStorage[key]).ok

\* The hook has mounted and its effect has not run: localStorage is as the
\* lazy initialiser read it
JustMounted == firstRender /\ effectPending

\* C2: whenever the effects have run and the last write succeeded, the text
\* stored under the current key is JSON.stringify of the hook's value, and the
\* hook returns the value the setter was last called with.
C2_ValuePersisted ==
    (~effectPending /\ ~writeFailed) =>
        /\ HasItem(key)
        /\ localStorage[key] = JsonStringify(typeParam, value)
        /\ lastSet # UNDEFINED => value = lastSet

\* C2 witness: the setter was called, the key changed, and the value is
\* stored under both keys
C2_Witness ==
    /\ ~effectPending /\ ~writeFailed
    /\ lastSet = "new value"
    /\ key = "other"
    /\ HasItem("key") /\ localStorage["key"] = <<Quote("new value")>>
    /\ localStorage["other"] = <<Quote("new value")>>

\* C3: on the first render the hook returns the parsed stored value when
\* there is one, and initialValue when nothing is stored under key; a later
\* render with another key does not read localStorage again: it leaves the
\* value as it is.
C3_InitialValue ==
    /\ [](JustMounted =>
            /\ StoredParses => value = JsonParse(localStorage[key]).val
            /\ ~HasItem(key) => value = initialValue)
    /\ [][key' # key => value' = value]_vars

\* C3 witness: the hook mounted again on the value it had stored, which is
\* not its initialValue
C3_Witness ==
    /\ JustMounted
    /\ StoredParses
    /\ value = "new value"
    /\ initialValue = "default"

\* C4: when the text stored under key is no valid JSON, the initialiser does
\* not throw and the hook returns initialValue.
C4_ParseErrorFallsBack ==
    (JustMounted /\ HasItem(key) /\ ~JsonParse(localStorage[key]).ok) =>
        value # THROWN /\ value = initialValue

\* C4 witness: after the setter stored "new value" under "key", the hook was
\* mounted again on the key "other", which holds "not-valid-json", and
\* returns the fallback
C4_Witness ==
    /\ JustMounted
    /\ key = "other"
    /\ HasItem(key) /\ localStorage[key] = CorruptText
    /\ HasItem("key") /\ localStorage["key"] = <<Quote("new value")>>
    /\ value = "fallback"

----------------------------------------------------------------------------
(* useTasks and useFilteredTasks (chapter 6, Steps 2 and 3): the task list  *)
(* is the value of useLocalStorage<Task[]>("taskflow-tasks", []).           *)

Filters == {"all", "active", "completed"}

\* The switch of useFilteredTasks
HookFilteredTasks(ts, f) ==
    LET IsActive(t) == ~t.completed
        IsCompleted(t) == t.completed
    IN CASE f = "active" -> SelectSeq(ts, IsActive)
         [] f = "completed" -> SelectSeq(ts, IsCompleted)
         [] OTHER -> ts

\* The counts object of useFilteredTasks
HookCounts(ts) ==
    LET IsActive(t) == ~t.completed
        IsCompleted(t) == t.completed
    IN [total |-> Len(ts),
        active |-> Len(SelectSeq(ts, IsActive)),
        completed |-> Len(SelectSeq(ts, IsCompleted))]

\* useMemo with the dependency array [filter]
MemoFilteredTasksFilterOnly(memo, tasksChanged, filterChanged, ts, f) ==
    IF filterChanged THEN HookFilteredTasks(ts, f) ELSE memo

\* useMemo(() => ..., [taskActions.tasks, filter]): computed anew when a dependency changed
MemoFilteredTasks(memo, tasksChanged, filterChanged, ts, f) ==
    IF tasksChanged \/ filterChanged THEN HookFilteredTasks(ts, f) ELSE memo

\* useMemo of the counts over the filtered tasks, with the dependency array [filter]
MemoCountsOfFiltered(memo, tasksChanged, filterChanged, ts, f) ==
    IF filterChanged THEN HookCounts(HookFilteredTasks(ts, f)) ELSE memo

\* useMemo(() => ({ total, active, completed }), [taskActions.tasks])
MemoCounts(memo, tasksChanged, filterChanged, ts, f) ==
    IF tasksChanged THEN HookCounts(ts) ELSE memo

\* crypto.randomUUID(): an id no task of the list or of the storage carries.
\* Ids are interchangeable, so the model takes the first one that is free.
NewHookId(ts) ==
    LET stored == LazyInit(STORAGE_KEY, <<>>)
        used == {t.id : t \in Range(ts)} \cup {t.id : t \in Range(stored)}
        free == {i \in 1..MaxHookTasks : ("t" \o ToString(i)) \notin used}
    IN "t" \o ToString(CHOOSE i \in free : \A j \in free : i <= j)

HasFreeHookId(ts) ==
    LET stored == LazyInit(STORAGE_KEY, <<>>)
    IN HookIds \ ({t.id : t \in Range(ts)} \cup {t.id : t \in Range(stored)}) # {}

\* setTasks((prev) => [...prev, { id, title, completed: false, createdAt }])
AppendTask(prev, id, taskTitle, now) ==
    Append(prev, [id |-> id, title |-> taskTitle, completed |-> FALSE, createdAt |-> now])

\* prev.map((t) => (t.id === id ? { ...t, ...updates } : t))
UpdateById(prev, id, updates) ==
    [i \in DOMAIN prev |-> IF prev[i].id = id THEN updates @@ prev[i] ELSE prev[i]]

\* The Partial<Omit<Task, "id">> objects updateTask is called with
Updates ==
    {<<>>} \cup {[title |-> t] : t \in UpdateTitles} \cup {[completed |-> c] : c \in BOOLEAN}
    \cup {[title |-> t, completed |-> c] : t \in UpdateTitles, c \in BOOLEAN}

FilteredTasksInit ==
    /\ typeParam = TTasksIso
    /\ key = STORAGE_KEY
    /\ initialValue = <<>>
    /\ localStorage \in {<<>>, STORAGE_KEY :> CorruptText}
    /\ value = LazyInit(key, initialValue)
    /\ effectPending = TRUE
    /\ writeFailed = FALSE
    /\ firstRender = TRUE
    /\ lastSet = UNDEFINED
    /\ filter = "all"
    /\ filteredTasks = HookFilteredTasks(value, filter)
    /\ counts = HookCounts(value)
    /\ tasks = <<>> /\ persistPending = FALSE /\ lastAction = NoAction
    /\ FormUnmounted /\ ToggleUnmounted /\ ExtUnmounted

\* setTasks(updater) and the render that follows: tasks is a new array
SetTasks(newTasks) ==
    /\ ~effectPending
    /\ value' = newTasks
    /\ effectPending' = TRUE
    /\ firstRender' = FALSE
    /\ filteredTasks' = MemoFilteredTasks(filteredTasks, TRUE, FALSE, newTasks, filter)
    /\ counts' = MemoCounts(counts, TRUE, FALSE, newTasks, filter)
    /\ UNCHANGED <<localStorage, typeParam, key, initialValue, writeFailed, lastSet, filter,
                   outsideHook>>

useTasks_addTask ==
    /\ HasFreeHookId(value)
    /\ \E taskTitle \in Titles, now \in Clock :
          SetTasks(AppendTask(value, NewHookId(value), taskTitle, now))

useTasks_toggleTask == \E id \in HookIds : SetTasks(ToggleById(value, id))

useTasks_deleteTask == \E id \in HookIds : SetTasks(DeleteById(value, id))

useTasks_updateTask ==
    \E id \in HookIds, updates \in Updates : SetTasks(UpdateById(value, id, updates))

\* setFilter and the render that follows
useFilteredTasks_setFilter ==
    /\ ~effectPending
    /\ \E f \in Filters :
          /\ filter' = f
          /\ filteredTasks' = MemoFilteredTasks(filteredTasks, FALSE, f # filter, value, f)
          /\ counts' = MemoCounts(counts, FALSE, f # filter, value, f)
    /\ firstRender' = FALSE
    /\ UNCHANGED <<localStorage, typeParam, key, initialValue, value, effectPending,
                   writeFailed, lastSet, outsideHook>>

\* The component unmounts and mounts again (a page reload)
remountTasks ==
    /\ value' = LazyInit(key, initialValue)
    /\ effectPending' = TRUE
    /\ writeFailed' = FALSE
    /\ firstRender' = TRUE
    /\ filter' = "all"
    /\ filteredTasks' = HookFilteredTasks(value', filter')
    /\ counts' = HookCounts(value')
    /\ UNCHANGED <<localStorage, typeParam, key, initialValue, lastSet, outsideHook>>

FilteredTasksNext ==
    \/ runEffect
    \/ useTasks_addTask
    \/ useTasks_toggleTask
    \/ useTasks_deleteTask
    \/ useTasks_updateTask
    \/ useFilteredTasks_setFilter
    \/ remountTasks

SpecFilteredTasks == FilteredTasksInit /\ [][FilteredTasksNext]_vars

----------------------------------------------------------------------------
(* Claims about useFilteredTasks *)

\* The tasks a filter asks for
Wanted(t, f) ==
    \/ f = "all"
    \/ f = "active" /\ t.completed = FALSE
    \/ f = "completed" /\ t.completed = TRUE

\* view holds exactly the wanted tasks of ts, in the order of ts
IsExactFilter(view, ts, f) ==
    LET wanted == {i \in DOMAIN ts : Wanted(ts[i], f)} IN
    /\ Len(view) = Cardinality(wanted)
    /\ \A i \in wanted : view[Cardinality({k \in wanted : k <= i})] = ts[i]

InView(id, view) == \E j \in DOMAIN view : view[j].id = id

\* C7: filteredTasks is all tasks under 'all', exactly the tasks that are not
\* completed under 'active' and exactly the completed ones under 'completed',
\* in the order of the task list, in useFilteredTasks as in App; and a toggle
\* of a task under 'active' or 'completed' moves it into or out of the view.
C7_FilteringExact ==
    /\ [](/\ IsExactFilter(filteredTasks, value, filter)
          /\ IsExactFilter(AppFilteredTasks(value, filter), value, filter))
    /\ [][\A id \in HookIds :
            (/\ value' = ToggleById(value, id)
             /\ InView(id, value)
             /\ filter' = filter
             /\ filter # "all") =>
                InView(id, filteredTasks) # InView(id, filteredTasks')]_vars

\* C7 witness: under 'completed' the view is the second of two tasks
C7_Witness ==
    /\ filter = "completed"
    /\ Len(value) = 2
    /\ ~value[1].completed
    /\ Len(filteredTasks) = 1
    /\ filteredTasks[1] = value[2]

\* C8: counts.total is the number of tasks, counts.active the number of
\* tasks that are not completed and counts.completed the number of completed
\* ones, so active + completed = total, whatever the filter is.
C8_CountsCorrect ==
    /\ counts.total = Len(value)
    /\ counts.active = Cardinality({i \in DOMAIN value : ~value[i].completed})
    /\ counts.completed = Cardinality({i \in DOMAIN value : value[i].completed})
    /\ counts.active + counts.completed = counts.total

\* C8 witness: one active and one completed task, one of them renamed by
\* updateTask, under a filter that hides one of them
C8_Witness ==
    /\ filter = "active"
    /\ counts = [total |-> 2, active |-> 1, completed |-> 1]
    /\ Len(filteredTasks) = 1
    /\ \E i \in DOMAIN value : value[i].title \in UpdateTitles

----------------------------------------------------------------------------
(* taskReducer (chapter 5, Step 2), as the function it is: the state is     *)
(* { tasks, filter }, and every step dispatches one action to it.           *)

\* The payloads of LOAD_TASKS: the list fetchTasks resolves to, and every
\* list of at most MaxPayload of its tasks
RECURSIVE ListsUpTo(_, _)
ListsUpTo(pool, n) ==
    IF n = 0 THEN {<<>>}
    ELSE LET shorter == ListsUpTo(pool, n - 1)
         IN shorter \cup {Append(l, t) : l \in shorter, t \in pool}

Payloads == {MOCK_TASKS} \cup ListsUpTo(Range(MOCK_TASKS), MaxPayload)

\* The ids TOGGLE_TASK and DELETE_TASK are dispatched with
ReducerIds == {"1", "2", "api-1"} \cup UUIDs

TaskActions ==
    {[type |-> "ADD_TASK", payload |-> [title |-> t]] : t \in Titles}
    \cup {[type |-> "TOGGLE_TASK", payload |-> [id |-> i]] : i \in ReducerIds}
    \cup {[type |-> "DELETE_TASK", payload |-> [id |-> i]] : i \in ReducerIds}
    \cup {[type |-> "SET_FILTER", payload |-> [filter |-> f]] : f \in Filters}
    \cup {[type |-> "LOAD_TASKS", payload |-> [tasks |-> l]] : l \in Payloads}

\* taskReducer(state, action); uuid and now are what crypto.randomUUID() and
\* new Date() return inside it
taskReducer(state, action, uuid, now) ==
    CASE action.type = "ADD_TASK" ->
           [state EXCEPT !.tasks = PrependTask(state.tasks, uuid, action.payload.title, now)]
      [] action.type = "TOGGLE_TASK" ->
           [state EXCEPT !.tasks = ToggleById(state.tasks, action.payload.id)]
      [] action.type = "DELETE_TASK" ->
           [state EXCEPT !.tasks = DeleteById(state.tasks, action.payload.id)]
      [] action.type = "SET_FILTER" ->
           [state EXCEPT !.filter = action.payload.filter]
      [] action.type = "LOAD_TASKS" ->
           [state EXCEPT !.tasks = MergeLoaded(state.tasks, action.payload.tasks)]
      [] OTHER -> state

ReducerInit ==
    /\ tasks = SEED_TASKS
    /\ filter = "all"
    /\ lastAction = NoAction
    /\ persistPending = FALSE
    /\ localStorage = <<>>
    /\ FormUnmounted /\ ToggleUnmounted /\ HookUnmounted /\ ExtUnmounted

\* dispatch(action): the state becomes taskReducer(state, action)
dispatch ==
    \E action \in TaskActions, uuid \in UUIDs, now \in Clock :
        LET next == taskReducer([tasks |-> tasks, filter |-> filter], action, uuid, NewDate(now)) IN
        /\ action.type = "ADD_TASK" => uuid \notin {t.id : t \in Range(tasks)}
        /\ Len(next.tasks) <= MaxReducerTasks
        /\ tasks' = next.tasks
        /\ filter' = next.filter
        /\ lastAction' = action
        /\ UNCHANGED <<localStorage, persistPending, outsideApp>>

ReducerNext == dispatch

SpecReducer == ReducerInit /\ [][ReducerNext]_vars

----------------------------------------------------------------------------
(* Claims about the merge of loaded tasks *)

DistinctIds(ts) == \A i, j \in DOMAIN ts : ts[i].id = ts[j].id => i = j

\* after is the tasks of before, unchanged and in their order, behind tasks
\* of the payload that before did not hold
MergedInFront(before, after, payload) ==
    LET n == Len(after) - Len(before) IN
    /\ n >= 0
    /\ SubSeq(after, n + 1, Len(after)) = before
    /\ \A i \in 1..n :
          /\ after[i] \in Range(payload)
          /\ after[i].id \notin {t.id : t \in Range(before)}

----------------------------------------------------------------------------
(* taskReducer of the Concepts section (chapter 5), evaluated twice on the  *)
(* same state and action, as React does with a reducer in Strict Mode.      *)

\* The most ids crypto.randomUUID() draws from across the evaluations: "e1" .. "e<MaxEvalUuid>"
MaxEvalUuid == 2

EvalUuids == {"e" \o ToString(i) : i \in 1..MaxEvalUuid}

\* taskReducer(state, action) of the Concepts section; uuid and now are what
\* crypto.randomUUID() and new Date() return inside it
taskReducerConcepts(state, action, uuid, now) ==
    CASE action.type = "ADD_TASK" ->
           [state EXCEPT !.tasks = PrependTask(state.tasks, uuid, action.payload.title, now)]
      [] action.type = "TOGGLE_TASK" ->
           [state EXCEPT !.tasks = ToggleById(state.tasks, action.payload.id)]
      [] action.type = "DELETE_TASK" ->
           [state EXCEPT !.tasks = DeleteById(state.tasks, action.payload.id)]
      [] action.type = "SET_FILTER" ->
           [state EXCEPT !.filter = action.payload.filter]
      [] action.type = "LOAD_TASKS" ->
           [state EXCEPT !.tasks = action.payload.tasks \o state.tasks]
      [] OTHER -> state

\* The payloads of LOAD_TASKS: the list fetchTasks resolves to, and its first task alone
PurityPayloads == {MOCK_TASKS, <<MOCK_TASKS[1]>>}

\* The actions the reducer is evaluated on
PurityActions ==
    {[type |-> "ADD_TASK", payload |-> [title |-> t]] : t \in Titles}
    \cup {[type |-> "TOGGLE_TASK", payload |-> [id |-> i]] : i \in {"1", "2"} \cup EvalUuids}
    \cup {[type |-> "DELETE_TASK", payload |-> [id |-> i]] : i \in {"1", "2"} \cup EvalUuids}
    \cup {[type |-> "SET_FILTER", payload |-> [filter |-> f]] : f \in Filters}
    \cup {[type |-> "LOAD_TASKS", payload |-> [tasks |-> l]] : l \in PurityPayloads}

PurityInit ==
    /\ tasks = SEED_TASKS
    /\ filter = "all"
    /\ lastAction = NoAction
    /\ firstResult = NoResult
    /\ secondResult = NoResult
    /\ PurityAlone

\* Two evaluations of taskReducer(state, action) on one state and one action;
\* the state becomes what the second one returned
reduceTwice ==
    \E action \in PurityActions, uuid1 \in EvalUuids, uuid2 \in EvalUuids, now \in Clock :
        LET state == [tasks |-> tasks, filter |-> filter]
            first == taskReducerConcepts(state, action, uuid1, NewDate(now))
            second == taskReducerConcepts(state, action, uuid2, NewDate(now))
        IN /\ Len(second.tasks) <= MaxReducerTasks
           /\ firstResult' = first
           /\ secondResult' = second
           /\ tasks' = second.tasks
           /\ filter' = second.filter
           /\ lastAction' = action
           /\ UNCHANGED outsidePurity

PurityNext == reduceTwice

SpecPurity == PurityInit /\ [][PurityNext]_vars

----------------------------------------------------------------------------
(* Claims about the purity of taskReducer *)

\* C11: taskReducer is a pure function of (state, action): two evaluations
\* on the same state and the same action return equal states, so the result
\* depends on nothing but the two arguments.
C11_ReducerPure == firstResult = secondResult

----------------------------------------------------------------------------
(* ThemeProvider: the light / dark provider of chapter 5 (Step 1) and of    *)
(* chapter 10 (Step 2). The theme is stored as it is, not as JSON: the item *)
(* 'taskflow-theme' is the one token of the theme's name.                   *)

\* The most calls of toggleTheme / setTheme a run makes
MaxThemeCalls == 3

THEME_KEY == "taskflow-theme"

\* The text of a string stored without JSON.stringify
RawText(s) == << s >>

\* What 'taskflow-theme' holds when the page loads: nothing, a theme, or
\* text no provider has written
ThemeStorages ==
    {<<>>} \cup {THEME_KEY :> text : text \in {RawText("light"), RawText("dark"), RawText("ocean"),
                                               RawText("sunset"), RawText("blue"),
                                               <<>>, << Quote("dark") >>}}

\* The lazy initialiser without its test of the stored value
ThemeLazyInitUnchecked(provider, dark) ==
    IF HasItem(THEME_KEY) /\ Len(localStorage[THEME_KEY]) = 1
    THEN localStorage[THEME_KEY][1]
    ELSE "light"

\* The lazy initialiser of useState: the stored value when it is 'dark' or
\* 'light'; else 'light' (chapter 5) or the system preference (chapter 10)
ThemeLazyInit(provider, dark) ==
    IF HasItem(THEME_KEY) /\ localStorage[THEME_KEY] \in {RawText("dark"), RawText("light")}
    THEN localStorage[THEME_KEY][1]
    ELSE IF provider = "chapter 10" /\ dark THEN "dark"
    ELSE "light"

\* The dependency array [theme] of the sync effect
ThemeSyncNeeded(old, new) == old # new

ThemeInit ==
    /\ themeProvider \in {"chapter 5", "chapter 10"}
    /\ prefersDark \in BOOLEAN
    /\ localStorage \in ThemeStorages
    /\ theme = ThemeLazyInit(themeProvider, prefersDark)
    /\ themeSyncPending = TRUE
    /\ themeCalls = 0
    /\ rootTheme = UNDEFINED
    /\ ThemeAlone

\* useEffect(() => { <show theme on the root element>; localStorage.setItem('taskflow-theme', theme) }, [theme])
themeSyncEffect ==
    /\ themeSyncPending
    /\ rootTheme' = theme
    /\ localStorage' = SetItem(THEME_KEY, RawText(theme))
    /\ themeSyncPending' = FALSE
    /\ UNCHANGED <<themeProvider, theme, prefersDark, themeCalls, outsideTheme>>

\* toggleTheme: setTheme((prev) => (prev === 'light' ? 'dark' : 'light'))
toggleTheme ==
    /\ ~themeSyncPending
    /\ themeCalls < MaxThemeCalls
    /\ theme' = IF theme = "light" THEN "dark" ELSE "light"
    /\ themeSyncPending' = ThemeSyncNeeded(theme, theme')
    /\ themeCalls' = themeCalls + 1
    /\ UNCHANGED <<localStorage, themeProvider, prefersDark, rootTheme, outsideTheme>>

\* The system switches between its light and its dark colour scheme
systemSchemeChange ==
    /\ prefersDark' = ~prefersDark
    /\ UNCHANGED <<localStorage, themeProvider, theme, themeSyncPending, themeCalls, rootTheme,
                   outsideTheme>>

\* A page refresh: the provider mounts again and runs its lazy initialiser
themeReload ==
    /\ theme' = ThemeLazyInit(themeProvider, prefersDark)
    /\ themeSyncPending' = TRUE
    /\ rootTheme' = UNDEFINED
    /\ UNCHANGED <<localStorage, themeProvider, prefersDark, themeCalls, outsideTheme>>

ThemeNext == themeSyncEffect \/ toggleTheme \/ systemSchemeChange \/ themeReload

SpecTheme == ThemeInit /\ [][ThemeNext]_vars

----------------------------------------------------------------------------
(* Claims about ThemeProvider *)

\* C12: once the sync effect has run, a page reload initialises the theme to
\* the value it had before the reload, whatever the system preference is;
\* and the theme is always 'light' or 'dark', never another stored value.
C12_ThemePersists ==
    /\ theme \in {"light", "dark"}
    /\ ~themeSyncPending =>
          \A dark \in BOOLEAN : ThemeLazyInit(themeProvider, dark) = theme

\* C12 witness: the user toggled three times, to 'light' on a system that prefers dark,
\* under the provider of chapter 10, and the effect has stored it
C12_Witness ==
    /\ themeProvider = "chapter 10"
    /\ themeCalls = 3
    /\ prefersDark
    /\ ~themeSyncPending
    /\ theme = "light"
    /\ localStorage[THEME_KEY] = RawText("light")

----------------------------------------------------------------------------
(* The refactor of chapter 6: the task list of chapter 5's taskReducer and  *)
(* the task list of chapter 6's useTasks, started from the same list and    *)
(* given the same calls of addTask / toggleTask / deleteTask.               *)

\* The longest task list of the two runs
MaxRefactorTasks == 4
\* crypto.randomUUID() draws from "r1" .. "r<MaxRefactorUuid>"; the two runs get the same id
MaxRefactorUuid == 2

RefactorUuids == {"r" \o ToString(i) : i \in 1..MaxRefactorUuid}

\* A Task[] of chapter 5 as chapter 6 holds it: createdAt is the ISO string of the Date
CreatedAtToIso(ts) == [i \in DOMAIN ts |-> [ts[i] EXCEPT !.createdAt = @.iso]]

\* The lists the two runs start from
RefactorStartLists == {<<>>, SEED_TASKS}

RefactorInit ==
    /\ \E start \in RefactorStartLists :
          /\ reducerState = [tasks |-> start, filter |-> "all"]
          /\ hookTasks = CreatedAtToIso(start)
    /\ RefactorAlone

\* The ids of the tasks on the page, which toggleTask and deleteTask are called with
RefactorIds == {t.id : t \in Range(reducerState.tasks)} \cup {t.id : t \in Range(hookTasks)}

\* addTask(title): dispatch({ type: 'ADD_TASK', ... }) in chapter 5, useTasks().addTask in chapter 6
refactorAddTask ==
    \E taskTitle \in Titles, uuid \in RefactorUuids \ RefactorIds, now \in Clock :
        /\ Len(hookTasks) < MaxRefactorTasks
        /\ reducerState' = taskReducer(reducerState,
                                       [type |-> "ADD_TASK", payload |-> [title |-> taskTitle]],
                                       uuid, NewDate(now))
        /\ hookTasks' = AppendTask(hookTasks, uuid, taskTitle, now)
        /\ UNCHANGED outsideRefactor

\* toggleTask(id) in both
refactorToggleTask ==
    \E id \in RefactorIds :
        /\ reducerState' = taskReducer(reducerState,
                                       [type |-> "TOGGLE_TASK", payload |-> [id |-> id]],
                                       id, NewDate("2026-02-05"))
        /\ hookTasks' = ToggleById(hookTasks, id)
        /\ UNCHANGED outsideRefactor

\* deleteTask(id) in both
refactorDeleteTask ==
    \E id \in RefactorIds :
        /\ reducerState' = taskReducer(reducerState,
                                       [type |-> "DELETE_TASK", payload |-> [id |-> id]],
                                       id, NewDate("2026-02-05"))
        /\ hookTasks' = DeleteById(hookTasks, id)
        /\ UNCHANGED outsideRefactor

RefactorNext == refactorAddTask \/ refactorToggleTask \/ refactorDeleteTask

SpecRefactor == RefactorInit /\ [][RefactorNext]_vars

----------------------------------------------------------------------------
(* Claims about the refactor *)

\* The titles and completed flags of a task list, in order
TitlesAndFlags(ts) == [i \in DOMAIN ts |-> <<ts[i].title, ts[i].completed>>]

\* C13: after every sequence of addTask / toggleTask / deleteTask from the
\* same task list, the list of chapter 6's useTasks equals the list of
\* chapter 5's taskReducer in titles, completed flags and order.
C13_RefactorKeepsTaskList ==
    TitlesAndFlags(hookTasks) = TitlesAndFlags(reducerState.tasks)

----------------------------------------------------------------------------
(* The sidebar of the course site (website/sidebars.ts) and the Course      *)
(* Structure table of the intro page. The site shows one document at a      *)
(* time; its sidebar lists the items in order, its categories collapse and  *)
(* expand, and its previous / next links follow the order of the sidebar.   *)

\* A document item: Docusaurus reads the string 'id' as { type: 'doc', id: 'id' }
Doc(id) == [type |-> "doc", id |-> id]

\* courseSidebar with chapters 05 and 06 in exchanged places
courseSidebarExchanged ==
    << Doc("intro"),
       [type |-> "category", label |-> "Part 1: React Fundamentals", collapsed |-> FALSE,
        items |-> << Doc("chapters/00-react-architecture"),
                     Doc("chapters/01-setup-first-component"),
                     Doc("chapters/02-state-and-events"),
                     Doc("chapters/03-component-composition"),
                     Doc("chapters/04-side-effects-lifecycle"),
                     Doc("chapters/06-custom-hooks"),
                     Doc("chapters/05-context-global-state") >>],
       [type |-> "category", label |-> "Part 2: Routing & Forms", collapsed |-> TRUE,
        items |-> << Doc("chapters/07-react-router"),
                     Doc("chapters/08-forms-validation") >>],
       [type |-> "category", label |-> "Part 3: Tailwind CSS", collapsed |-> TRUE,
        items |-> << Doc("chapters/09-tailwind-fundamentals"),
                     Doc("chapters/10-advanced-tailwind") >>],
       [type |-> "category", label |-> "Part 4: shadcn/ui", collapsed |-> TRUE,
        items |-> << Doc("chapters/11-shadcn-setup-core"),
                     Doc("chapters/12-shadcn-complex-components"),
                     Doc("chapters/13-data-display"),
                     Doc("chapters/14-shadcn-forms"),
                     Doc("chapters/15-theming-polish") >>],
       [type |-> "category", label |-> "Part 5: Production", collapsed |-> TRUE,
        items |-> << Doc("chapters/16-performance"),
                     Doc("chapters/17-testing") >>] >>

\* sidebars.courseSidebar
courseSidebar ==
    << Doc("intro"),
       [type |-> "category", label |-> "Part 1: React Fundamentals", collapsed |-> FALSE,
        items |-> << Doc("chapters/00-react-architecture"),
                     Doc("chapters/01-setup-first-component"),
                     Doc("chapters/02-state-and-events"),
                     Doc("chapters/03-component-composition"),
                     Doc("chapters/04-side-effects-lifecycle"),
                     Doc("chapters/05-context-global-state"),
                     Doc("chapters/06-custom-hooks") >>],
       [type |-> "category", label |-> "Part 2: Routing & Forms", collapsed |-> TRUE,
        items |-> << Doc("chapters/07-react-router"),
                     Doc("chapters/08-forms-validation") >>],
       [type |-> "category", label |-> "Part 3: Tailwind CSS", collapsed |-> TRUE,
        items |-> << Doc("chapters/09-tailwind-fundamentals"),
                     Doc("chapters/10-advanced-tailwind") >>],
       [type |-> "category", label |-> "Part 4: shadcn/ui", collapsed |-> TRUE,
        items |-> << Doc("chapters/11-shadcn-setup-core"),
                     Doc("chapters/12-shadcn-complex-components"),
                     Doc("chapters/13-data-display"),
                     Doc("chapters/14-shadcn-forms"),
                     Doc("chapters/15-theming-polish") >>],
       [type |-> "category", label |-> "Part 5: Production", collapsed |-> TRUE,
        items |-> << Doc("chapters/16-performance"),
                     Doc("chapters/17-testing") >>] >>

\* The Course Structure table of the intro page: part, first and last chapter
CourseStructure ==
    << [part |-> 1, from |-> 0, to |-> 6],
       [part |-> 2, from |-> 7, to |-> 8],
       [part |-> 3, from |-> 9, to |-> 10],
       [part |-> 4, from |-> 11, to |-> 15],
       [part |-> 5, from |-> 16, to |-> 17] >>

\* The ids of the documents of one item of the sidebar, in order
ItemDocIds(item) ==
    IF item.type = "doc" THEN << item.id >>
    ELSE [i \in DOMAIN item.items |-> item.items[i].id]

\* The ids of the documents of the sidebar in the order it lists them: the
\* order of the previous / next links
RECURSIVE FlattenItems(_)
FlattenItems(items) ==
    IF items = <<>> THEN <<>> ELSE ItemDocIds(Head(items)) \o FlattenItems(Tail(items))

SidebarDocIds == FlattenItems(courseSidebar)

Categories == SelectSeq(courseSidebar, LAMBDA item : item.type = "category")

\* The label of the category that lists the document, or UNDEFINED for a top-level document
CategoryOf(id) ==
    IF \E i \in DOMAIN Categories : id \in Range(ItemDocIds(Categories[i]))
    THEN Categories[CHOOSE i \in DOMAIN Categories : id \in Range(ItemDocIds(Categories[i]))].label
    ELSE UNDEFINED

\* Where the document stands in the order of the sidebar
PositionOf(id) == CHOOSE i \in DOMAIN SidebarDocIds : SidebarDocIds[i] = id

\* The category of the document is expanded when the document is opened
ExpandFor(id, c) ==
    IF CategoryOf(id) = UNDEFINED THEN c ELSE [c EXCEPT ![CategoryOf(id)] = FALSE]

SidebarInit ==
    /\ activeDoc = SidebarDocIds[1]
    /\ collapsed = [label \in {Categories[i].label : i \in DOMAIN Categories} |->
                       (CHOOSE cat \in Range(Categories) : cat.label = label).collapsed]
    /\ SidebarAlone

\* A click on a category: it collapses or expands
toggleCategory ==
    /\ \E label \in DOMAIN collapsed : collapsed' = [collapsed EXCEPT ![label] = ~@]
    /\ UNCHANGED <<activeDoc, outsideSidebar>>

\* A click on a document the sidebar shows: a top-level one or one of an expanded category
openDoc ==
    /\ \E id \in Range(SidebarDocIds) :
          /\ IF CategoryOf(id) = UNDEFINED THEN TRUE ELSE ~collapsed[CategoryOf(id)]
          /\ id # activeDoc
          /\ activeDoc' = id
    /\ UNCHANGED <<collapsed, outsideSidebar>>

\* The next link at the foot of the page
openNext ==
    /\ PositionOf(activeDoc) < Len(SidebarDocIds)
    /\ activeDoc' = SidebarDocIds[PositionOf(activeDoc) + 1]
    /\ collapsed' = ExpandFor(activeDoc', collapsed)
    /\ UNCHANGED outsideSidebar

\* The previous link at the foot of the page
openPrevious ==
    /\ PositionOf(activeDoc) > 1
    /\ activeDoc' = SidebarDocIds[PositionOf(activeDoc) - 1]
    /\ collapsed' = ExpandFor(activeDoc', collapsed)
    /\ UNCHANGED outsideSidebar

SidebarNext == toggleCategory \/ openDoc \/ openNext \/ openPrevious

SpecSidebar == SidebarInit /\ [][SidebarNext]_vars

----------------------------------------------------------------------------
(* Claims about the sidebar *)

\* The two digits a chapter id carries for the chapter number n
TwoDigits(n) == IF n < 10 THEN "0" \o ToString(n) ELSE ToString(n)

\* The id is 'chapters/NN-...' with NN the two digits of n
IsChapterId(id, n) ==
    /\ Len(id) > 12
    /\ SubSeq(id, 1, 12) = "chapters/" \o TwoDigits(n) \o "-"

\* C14: courseSidebar starts with 'intro'; its five categories together list
\* each chapter id 00 through 17 exactly once, in ascending order; the
\* chapters of the k-th category are those of part k of the Course Structure
\* table (0-6, 7-8, 9-10, 11-15, 16-17); so the document shown is 'intro'
\* or the chapter whose number is its place in the order, under its part.
C14_SidebarListsChapters ==
    /\ courseSidebar[1] = Doc("intro")
    /\ Len(Categories) = 5
    /\ Len(courseSidebar) = 6
    /\ Len(SidebarDocIds) = 19
    /\ \A n \in 0..17 : IsChapterId(SidebarDocIds[n + 2], n)
    /\ Len(CourseStructure) = Len(Categories)
    /\ \A k \in DOMAIN Categories :
          /\ CourseStructure[k].part = k
          /\ Len(Categories[k].items) = CourseStructure[k].to - CourseStructure[k].from + 1
          /\ \A j \in DOMAIN Categories[k].items :
                IsChapterId(Categories[k].items[j].id, CourseStructure[k].from + j - 1)
    /\ activeDoc # "intro" =>
          /\ IsChapterId(activeDoc, PositionOf(activeDoc) - 2)
          /\ \E k \in DOMAIN Categories :
                /\ Categories[k].label = CategoryOf(activeDoc)
                /\ PositionOf(activeDoc) - 2 \in CourseStructure[k].from .. CourseStructure[k].to

\* C14 witness: the last chapter is shown, reached with every category but
\* its own collapsed
C14_Witness ==
    /\ activeDoc = "chapters/17-testing"
    /\ PositionOf(activeDoc) = 19
    /\ ~collapsed["Part 5: Production"]
    /\ collapsed["Part 1: React Fundamentals"]
    /\ collapsed["Part 4: shadcn/ui"]

----------------------------------------------------------------------------
(* UserProfile (chapter 4, Data Fetching: The Old Way): a fetch per userId, *)
(* each effect with its own cancelled flag. The responses arrive in any     *)
(* order, each as a success or as a failure.                                *)

\* The most fetches a run makes
MaxFetches == 3

ProfileUserIds == {"alice", "bob"}

\* What res.json() resolves to for /api/users/<id>
UserOf(id) == [id |-> id]

\* What of the component a response or an effect changes
ProfileState == [user |-> user, loading |-> loading, error |-> error, fetches |-> fetches]

\* The cleanup of the effect: cancelled = true in the closure of every fetch made so far
Cleanup(st) == [st EXCEPT !.fetches = {[r EXCEPT !.cancelled = TRUE] : r \in @}]

\* The effect: setLoading(true); setError(null); fetch(`/api/users/${userId}`)
EffectBody(st, id, n) ==
    [st EXCEPT !.loading = TRUE,
               !.error = NullString,
               !.fetches = @ \cup {[n |-> n, userId |-> id, cancelled |-> FALSE]}]

\* The .then / .catch callbacks without the test of cancelled
DeliverUnchecked(st, r, ok) ==
    LET rest == [st EXCEPT !.fetches = @ \ {r}] IN
    IF ok THEN [rest EXCEPT !.user = UserOf(r.userId), !.loading = FALSE]
    ELSE [rest EXCEPT !.error = "Failed to fetch", !.loading = FALSE]

\* The .then / .catch callbacks of the fetch r: on success setUser(data), on
\* failure setError(err.message), and setLoading(false); nothing when cancelled
Deliver(st, r, ok) ==
    LET rest == [st EXCEPT !.fetches = @ \ {r}] IN
    IF r.cancelled THEN rest
    ELSE IF ok THEN [rest EXCEPT !.user = UserOf(r.userId), !.loading = FALSE]
    ELSE [rest EXCEPT !.error = "Failed to fetch", !.loading = FALSE]

\* The component becomes st
ProfileBecomes(st) ==
    /\ user' = st.user
    /\ loading' = st.loading
    /\ error' = st.error
    /\ fetches' = st.fetches

ProfileInit ==
    /\ userId \in ProfileUserIds
    /\ user = JsNull
    /\ loading = TRUE
    /\ error = NullString
    /\ fetches = {}
    /\ fetchCount = 0
    /\ profileEffectPending = TRUE
    /\ profileMounted = TRUE
    /\ delivered = NoResponse
    /\ ProfileAlone

\* useEffect(..., [userId]): the cleanup of the effect before it, then the effect
profileEffect ==
    /\ profileMounted /\ profileEffectPending
    /\ fetchCount < MaxFetches
    /\ ProfileBecomes(EffectBody(Cleanup(ProfileState), userId, fetchCount + 1))
    /\ fetchCount' = fetchCount + 1
    /\ profileEffectPending' = FALSE
    /\ delivered' = NoResponse
    /\ UNCHANGED <<userId, profileMounted, outsideProfile>>

\* The parent renders UserProfile with another userId
changeUserId ==
    /\ profileMounted /\ ~profileEffectPending
    /\ \E id \in ProfileUserIds \ {userId} : userId' = id
    /\ profileEffectPending' = TRUE
    /\ delivered' = NoResponse
    /\ UNCHANGED <<user, loading, error, fetches, fetchCount, profileMounted, outsideProfile>>

\* A response arrives. When it sets state while the effect of a new userId is
\* still scheduled, React runs that effect before it renders the update.
receiveResponse ==
    \E r \in fetches, ok \in BOOLEAN :
        LET after == Deliver(ProfileState, r, ok)
            flush == profileMounted /\ profileEffectPending /\ ~r.cancelled
                     /\ fetchCount < MaxFetches
        IN /\ ~(profileMounted /\ profileEffectPending /\ ~r.cancelled) \/ flush
           /\ IF flush
              THEN /\ ProfileBecomes(EffectBody(Cleanup(after), userId, fetchCount + 1))
                   /\ fetchCount' = fetchCount + 1
                   /\ profileEffectPending' = FALSE
              ELSE /\ ProfileBecomes(after)
                   /\ UNCHANGED <<fetchCount, profileEffectPending>>
           /\ delivered' = [n |-> r.n, userId |-> r.userId, cancelled |-> r.cancelled, ok |-> ok]
           /\ UNCHANGED <<userId, profileMounted, outsideProfile>>

\* The component unmounts: the cleanup of its effect runs
profileUnmount ==
    /\ profileMounted
    /\ profileMounted' = FALSE
    /\ profileEffectPending' = FALSE
    /\ ProfileBecomes(Cleanup(ProfileState))
    /\ delivered' = NoResponse
    /\ UNCHANGED <<userId, fetchCount, outsideProfile>>

ProfileNext == profileEffect \/ changeUserId \/ receiveResponse \/ profileUnmount

SpecProfile == ProfileInit /\ [][ProfileNext]_vars

----------------------------------------------------------------------------
(* Claims about UserProfile *)

\* A response of a fetch whose effect was cleaned up changes none of user, loading, error
StaleResponsesIgnored ==
    [][(delivered' # NoResponse /\ delivered'.cancelled) =>
          UNCHANGED <<user, loading, error>>]_vars

\* C15 as stated: a response of a fetch whose effect has been cleaned up
\* never changes user, loading or error; and whenever loading is false and
\* error is null, user is the response for the current userId.
C15_StaleIgnoredAlways ==
    /\ StaleResponsesIgnored
    /\ []((profileMounted /\ ~loading /\ error = NullString) => user = UserOf(userId))

\* C15 amended: a response of a fetch whose effect has been cleaned up never
\* changes user, loading or error; and whenever the effect of the current
\* userId has run, loading is false and error is null, user is the response
\* for the current userId.
C15_StaleIgnoredOnceEffectRan ==
    /\ StaleResponsesIgnored
    /\ []((profileMounted /\ ~profileEffectPending /\ ~loading /\ error = NullString) =>
             user = UserOf(userId))

\* C15 witness: the response for alice arrived after the userId had become
\* bob and bob's response had been shown, and changed nothing
C15_Witness ==
    /\ profileMounted /\ ~profileEffectPending
    /\ userId = "bob"
    /\ delivered # NoResponse /\ delivered.cancelled /\ delivered.ok
    /\ delivered.userId = "alice"
    /\ ~loading /\ error = NullString
    /\ user = UserOf("bob")

----------------------------------------------------------------------------
(* useDebouncedValue (chapter 6, Pattern 5): the value passed, delayed by a *)
(* timer that every change of the value restarts. Time is counted in units  *)
(* of a millisecond scaled down; a timer is due when its time left is 0.    *)

\* The longest delayMs passed to useDebouncedValue
MaxDelayMs == 2
Delays == 1..MaxDelayMs

\* What the user types into the input of TaskSearch
DebounceQueries == {"", "re", "react"}

\* setTimeout(() => setDebouncedValue(value), delayMs)
SetTimeout(v, d) == [value |-> v, left |-> d]

\* A millisecond passes for a timer
Elapse(t) == IF t.left > 0 THEN [t EXCEPT !.left = @ - 1] ELSE t

\* The cleanup that leaves the timer of the effect pending
ClearTimeoutForgotten(ts, t) == ts
\* return () => clearTimeout(timer)
ClearTimeout(ts, t) == ts \ {t}

DebounceInit ==
    /\ query \in DebounceQueries
    /\ delayMs \in Delays
    /\ debouncedValue = query
    /\ timers = {}
    /\ timer = NoTimer
    /\ debounceEffectPending = TRUE
    /\ debounceMounted = TRUE
    /\ stableFor = 0
    /\ DebounceAlone

\* useEffect(..., [value, delayMs]): the cleanup of the effect that ran
\* before, then the effect
debounceEffect ==
    /\ debounceMounted /\ debounceEffectPending
    /\ timer' = SetTimeout(query, delayMs)
    /\ timers' = ClearTimeout(timers, timer) \cup {timer'}
    /\ debounceEffectPending' = FALSE
    /\ UNCHANGED <<query, delayMs, debouncedValue, debounceMounted, stableFor, outsideDebounce>>

\* onChange={(e) => setQuery(e.target.value)}: a render with another value
setQuery ==
    /\ debounceMounted /\ ~debounceEffectPending
    /\ \E q \in DebounceQueries \ {query} : query' = q
    /\ stableFor' = 0
    /\ debounceEffectPending' = TRUE
    /\ UNCHANGED <<delayMs, debouncedValue, timers, timer, debounceMounted, outsideDebounce>>

\* A render with another delayMs
changeDelayMs ==
    /\ debounceMounted /\ ~debounceEffectPending
    /\ \E d \in Delays \ {delayMs} : delayMs' = d
    /\ debounceEffectPending' = TRUE
    /\ UNCHANGED <<query, debouncedValue, timers, timer, debounceMounted, stableFor,
                   outsideDebounce>>

\* A millisecond passes. The effects of a render run in the task of the
\* render, before time passes
millisecond ==
    /\ debounceMounted /\ ~debounceEffectPending
    /\ timers' = {Elapse(t) : t \in timers}
    /\ timer' = IF timer \in timers THEN Elapse(timer) ELSE timer
    /\ stableFor' = IF stableFor < MaxDelayMs THEN stableFor + 1 ELSE stableFor
    /\ UNCHANGED <<query, delayMs, debouncedValue, debounceEffectPending, debounceMounted,
                   outsideDebounce>>

\* A timer that is due runs its callback: () => setDebouncedValue(value),
\* with the value of the render that set it
timerFires ==
    /\ ~debounceEffectPending
    /\ \E t \in timers :
        /\ t.left = 0
        /\ timers' = timers \ {t}
        /\ debouncedValue' = IF debounceMounted THEN t.value ELSE debouncedValue
    /\ UNCHANGED <<query, delayMs, timer, debounceEffectPending, debounceMounted, stableFor,
                   outsideDebounce>>

\* The component unmounts: the cleanup of the effect runs
debounceUnmount ==
    /\ debounceMounted
    /\ debounceMounted' = FALSE
    /\ timers' = ClearTimeout(timers, timer)
    /\ debounceEffectPending' = FALSE
    /\ UNCHANGED <<query, delayMs, debouncedValue, timer, stableFor, outsideDebounce>>

DebounceNext ==
    \/ debounceEffect
    \/ setQuery
    \/ changeDelayMs
    \/ millisecond
    \/ timerFires
    \/ debounceUnmount

SpecDebounce == DebounceInit /\ [][DebounceNext]_vars

\* Effects run, time passes and due timers fire
SpecDebounceFair ==
    /\ SpecDebounce
    /\ WF_vars(debounceEffect)
    /\ WF_vars(millisecond)
    /\ WF_vars(timerFires)

----------------------------------------------------------------------------
(* Claims about useDebouncedValue *)

\* The returned value changes only to the value passed, and only when that
\* value has stayed what it is for delayMs
ChangesOnlyAfterDelay ==
    [][debouncedValue' # debouncedValue =>
          (debouncedValue' = query /\ stableFor >= delayMs)]_vars

\* At most one timer is pending, and none once the component is unmounted
OneTimerPending ==
    [](Cardinality(timers) <= 1 /\ (~debounceMounted => timers = {}))

\* If the value passed (and delayMs) stops changing and the component stays
\* mounted, the returned value is the value passed from some time on
SettlesOnLastInput ==
    ([]debounceMounted /\ <>[][query' = query /\ delayMs' = delayMs]_vars)
        => <>[](debouncedValue = query)

----------------------------------------------------------------------------
(* The subscription effect (chapter 4, Cleanup Functions: Subscriptions): a *)
(* component subscribed to the chat room roomId                             *)

\* The most messages a run of the chat component receives
MaxMessages == 2

\* The rooms of chatAPI
Rooms == {"general", "random", "help"}

\* s without its element at i
RemoveAt(s, i) == SubSeq(s, 1, i - 1) \o SubSeq(s, i + 1, Len(s))

\* const unsubscribe = chatAPI.subscribe(roomId, callback)
Subscribe(subs, room) == Append(subs, room)

\* A cleanup that leaves the subscription active
UnsubscribeNothing(subs, room) == subs
\* unsubscribe(): ends the subscription it was returned for, once
Unsubscribe(subs, room) ==
    IF \E i \in 1..Len(subs) : subs[i] = room
    THEN RemoveAt(subs, CHOOSE i \in 1..Len(subs) :
                            subs[i] = room /\ \A j \in 1..(i - 1) : subs[j] # room)
    ELSE subs

\* (message) => setMessages((prev) => [...prev, message]), once for each
\* active subscription to the room of the message
Receive(msgs, subs, message) ==
    msgs \o SelectSeq([i \in 1..Len(subs) |-> IF subs[i] = message.room THEN message ELSE JsNull],
                      LAMBDA m : m # JsNull)

ChatInit ==
    /\ roomId \in Rooms
    /\ subscriptions = <<>>
    /\ unsubscribe = UNDEFINED
    /\ messages = <<>>
    /\ chatEffectPending = TRUE
    /\ chatMounted = TRUE
    /\ ChatAlone

\* useEffect(..., [roomId]): the cleanup of the effect that ran before, then
\* the effect
chatEffect ==
    /\ chatMounted /\ chatEffectPending
    /\ subscriptions' = Subscribe(Unsubscribe(subscriptions, unsubscribe), roomId)
    /\ unsubscribe' = roomId
    /\ chatEffectPending' = FALSE
    /\ UNCHANGED <<roomId, messages, chatMounted, outsideChat>>

\* A render with another roomId is committed
changeRoomId ==
    /\ chatMounted /\ ~chatEffectPending
    /\ \E room \in Rooms \ {roomId} : roomId' = room
    /\ chatEffectPending' = TRUE
    /\ UNCHANGED <<subscriptions, unsubscribe, messages, chatMounted, outsideChat>>

\* chatAPI has a message for a room
receiveMessage ==
    /\ Len(messages) < MaxMessages
    /\ \E room \in Rooms :
        /\ \E i \in 1..Len(subscriptions) : subscriptions[i] = room
        /\ messages' = Receive(messages, subscriptions, [room |-> room, text |-> "hello"])
    /\ UNCHANGED <<roomId, subscriptions, unsubscribe, chatEffectPending, chatMounted,
                   outsideChat>>

\* The component unmounts: the cleanup of the effect runs
chatUnmount ==
    /\ chatMounted
    /\ chatMounted' = FALSE
    /\ subscriptions' = Unsubscribe(subscriptions, unsubscribe)
    /\ chatEffectPending' = FALSE
    /\ UNCHANGED <<roomId, unsubscribe, messages, outsideChat>>

ChatNext == chatEffect \/ changeRoomId \/ receiveMessage \/ chatUnmount

SpecChat == ChatInit /\ [][ChatNext]_vars

----------------------------------------------------------------------------
(* Claims about the subscription effect *)

\* At most one subscription is active, and none once the component is
\* unmounted
AtMostOneSubscription ==
    /\ Len(subscriptions) <= 1
    /\ ~chatMounted => subscriptions = <<>>

\* C17 as stated: on mount the effect subscribes to the current roomId; the
\* cleanup of the old effect runs before the new effect, so at every moment at
\* most one subscription is active and it is for the roomId of the latest
\* committed render; after unmount no subscription is active.
C17_SubscriptionForCommittedRoom ==
    /\ AtMostOneSubscription
    /\ \A i \in 1..Len(subscriptions) : subscriptions[i] = roomId

\* C17 amended: at every moment at most one subscription is active; once the
\* effect of the latest committed render has run, it is for the roomId of
\* that render, and until then it is the one of the render before; after
\* unmount no subscription is active.
C17_SubscriptionOnceEffectRan ==
    /\ AtMostOneSubscription
    /\ (chatMounted /\ ~chatEffectPending) => subscriptions = <<roomId>>
    /\ \A i \in 1..Len(subscriptions) : subscriptions[i] = unsubscribe

\* The room changed from "general" to "random": a message of each room was
\* received while it was the room subscribed to, and the only subscription now
\* is to "random"
C17_Witness ==
    /\ chatMounted /\ ~chatEffectPending
    /\ roomId = "random"
    /\ subscriptions = <<"random">>
    /\ messages = <<[room |-> "general", text |-> "hello"], [room |-> "random", text |-> "hello"]>>

----------------------------------------------------------------------------
(* Effects with cleanup under Strict Mode (chapter 4, Cleanup Functions:    *)
(* Timers, Event Listeners; chapter 6, useOnlineStatus): in development a   *)
(* mount runs the effect, its cleanup, and the effect again                  *)

\* The most times the component is mounted
MaxMounts == 2
\* The most seconds the interval counts
MaxSeconds == 2

EffectKinds == {"timer", "resize", "online"}

\* window.innerWidth
Widths == {320, 768}

\* What the effects register with: the intervals and the listeners of window
Window == [intervals |-> intervals, listeners |-> listeners]

\* window.addEventListener(event, handler), handler the closure of effect run n
Listener(event, handler, n) == [event |-> event, handler |-> handler, run |-> n]

\* The body of the effect, run for the n-th time
Setup(kind, n, w) ==
    CASE kind = "timer" -> [w EXCEPT !.intervals = @ \cup {n}]
      [] kind = "resize" ->
            [w EXCEPT !.listeners = @ \cup {Listener("resize", "handleResize", n)}]
      [] kind = "online" ->
            [w EXCEPT !.listeners = @ \cup {Listener("online", "goOnline", n),
                                            Listener("offline", "goOffline", n)}]

\* A cleanup of useOnlineStatus that removes only the "online" listener
CleanupIncomplete(kind, n, w) ==
    CASE kind = "timer" -> [w EXCEPT !.intervals = @ \ {n}]
      [] kind = "resize" ->
            [w EXCEPT !.listeners = @ \ {Listener("resize", "handleResize", n)}]
      [] kind = "online" ->
            [w EXCEPT !.listeners = @ \ {Listener("online", "goOnline", n)}]
\* The function the n-th run of the effect returned
EffectCleanup(kind, n, w) ==
    CASE kind = "timer" -> [w EXCEPT !.intervals = @ \ {n}]
      [] kind = "resize" ->
            [w EXCEPT !.listeners = @ \ {Listener("resize", "handleResize", n)}]
      [] kind = "online" ->
            [w EXCEPT !.listeners = @ \ {Listener("online", "goOnline", n),
                                         Listener("offline", "goOffline", n)}]

WindowBecomes(w) == intervals' = w.intervals /\ listeners' = w.listeners

\* The listeners of window for an event
ListenersFor(event) == {l \in listeners : l.event = event}

StrictInit ==
    /\ effectKind \in EffectKinds
    /\ strictMode \in BOOLEAN
    /\ mountPhase = "setup"
    /\ mounts = 1
    /\ effectRuns = 0
    /\ intervals = {}
    /\ listeners = {}
    /\ seconds = 0
    /\ width \in Widths
    /\ isOnline \in BOOLEAN
    /\ StrictAlone

\* The effect runs: on mount, and in Strict Mode once more after the cleanup
effectSetup ==
    /\ mountPhase \in {"setup", "setup again"}
    /\ effectRuns' = effectRuns + 1
    /\ WindowBecomes(Setup(effectKind, effectRuns', Window))
    /\ mountPhase' = IF strictMode /\ mountPhase = "setup" THEN "teardown" ELSE "mounted"
    /\ UNCHANGED <<effectKind, strictMode, mounts, seconds, width, isOnline, outsideStrict>>

\* Strict Mode: the cleanup of the effect that just ran
effectTeardown ==
    /\ mountPhase = "teardown"
    /\ WindowBecomes(EffectCleanup(effectKind, effectRuns, Window))
    /\ mountPhase' = "setup again"
    /\ UNCHANGED <<effectKind, strictMode, mounts, effectRuns, seconds, width, isOnline,
                   outsideStrict>>

\* An interval fires: setSeconds((s) => s + 1)
intervalFires ==
    /\ mountPhase = "mounted"
    /\ seconds < MaxSeconds
    /\ \E id \in intervals : seconds' = seconds + 1
    /\ UNCHANGED <<effectKind, strictMode, mountPhase, mounts, effectRuns, intervals,
                   listeners, width, isOnline, outsideStrict>>

\* The window is resized: each "resize" listener runs setWidth(window.innerWidth)
resize ==
    /\ mountPhase = "mounted"
    /\ \E w \in Widths : width' = IF ListenersFor("resize") # {} THEN w ELSE width
    /\ UNCHANGED <<effectKind, strictMode, mountPhase, mounts, effectRuns, intervals,
                   listeners, seconds, isOnline, outsideStrict>>

\* The browser goes online or offline: goOnline / goOffline run
connectionChange ==
    /\ mountPhase = "mounted"
    /\ \E event \in {"online", "offline"} :
          isOnline' = IF ListenersFor(event) # {} THEN event = "online" ELSE isOnline
    /\ UNCHANGED <<effectKind, strictMode, mountPhase, mounts, effectRuns, intervals,
                   listeners, seconds, width, outsideStrict>>

\* The component unmounts: the cleanup of the effect that ran last
strictUnmount ==
    /\ mountPhase = "mounted"
    /\ WindowBecomes(EffectCleanup(effectKind, effectRuns, Window))
    /\ mountPhase' = "unmounted"
    /\ UNCHANGED <<effectKind, strictMode, mounts, effectRuns, seconds, width, isOnline,
                   outsideStrict>>

\* The component is mounted again: its state starts over
mountAgain ==
    /\ mountPhase = "unmounted"
    /\ mounts < MaxMounts
    /\ mounts' = mounts + 1
    /\ mountPhase' = "setup"
    /\ seconds' = 0
    /\ width' \in Widths
    /\ isOnline' \in BOOLEAN
    /\ UNCHANGED <<effectKind, strictMode, effectRuns, intervals, listeners, outsideStrict>>

StrictNext ==
    \/ effectSetup
    \/ effectTeardown
    \/ intervalFires
    \/ resize
    \/ connectionChange
    \/ strictUnmount
    \/ mountAgain

SpecStrict == StrictInit /\ [][StrictNext]_vars

----------------------------------------------------------------------------
(* Claims about Strict Mode *)

\* The events an effect of a kind listens to
EventsOf(kind) ==
    CASE kind = "timer" -> {}
      [] kind = "resize" -> {"resize"}
      [] kind = "online" -> {"online", "offline"}

\* C18: for the timer and event-listener effects (setInterval, the resize and
\* online / offline listeners of window), the development mount sequence
\* setup, cleanup, setup leaves exactly one timer or one listener per event
\* registered, and unmount leaves none.
C18_StrictModeHarmless ==
    /\ mountPhase = "mounted" =>
          /\ Cardinality(intervals) = (IF effectKind = "timer" THEN 1 ELSE 0)
          /\ \A event \in {"resize", "online", "offline"} :
                Cardinality(ListenersFor(event))
                    = (IF event \in EventsOf(effectKind) THEN 1 ELSE 0)
    /\ mountPhase = "unmounted" => (intervals = {} /\ listeners = {})

\* useOnlineStatus mounted a second time in Strict Mode: the effect has run
\* four times, and the listeners are those of the fourth run
C18_Witness ==
    /\ strictMode /\ effectKind = "online" /\ mountPhase = "mounted"
    /\ mounts = 2 /\ effectRuns = 4
    /\ listeners = {Listener("online", "goOnline", 4), Listener("offline", "goOffline", 4)}

----------------------------------------------------------------------------
(* Batched state updates (Functional Updates): the calls of setCount of one *)
(* event handler are queued and applied at the next render                   *)

\* The most calls of setCount one event handler makes
MaxSetterCalls == 3
\* The most updates queued before a render
MaxQueued == 4
\* The largest count
MaxCount == 5

\* setCount(count + 1): the value is computed from the count of the render
\* the handler closes over
ValueUpdate(c) == [functional |-> FALSE, value |-> c + 1]
\* setCount((prev) => prev + 1)
FunctionalUpdate == [functional |-> TRUE]

\* n times the same update
Repeat(u, n) == [i \in 1..n |-> u]

\* A queue that takes the value of setCount(count + 1) as one more increment
ApplyCountUpdateAsIncrement(c, u) == c + 1
\* What one queued update makes of the count before it
ApplyCountUpdate(c, u) == IF u.functional THEN c + 1 ELSE u.value

RECURSIVE ApplyCountQueue(_, _)
ApplyCountQueue(c, q) ==
    IF q = <<>> THEN c ELSE ApplyCountQueue(ApplyCountUpdate(c, Head(q)), Tail(q))

CounterInit ==
    /\ count = 0
    /\ countQueue = <<>>
    /\ lastRender = NoRender
    /\ CounterAlone

\* An event handler that calls setCount(count + 1) n times
incrementByValue ==
    /\ \E n \in 1..MaxSetterCalls :
        /\ Len(countQueue) + n <= MaxQueued
        /\ countQueue' = countQueue \o Repeat(ValueUpdate(count), n)
    /\ UNCHANGED <<count, lastRender, outsideCounter>>

\* An event handler that calls setCount((prev) => prev + 1) n times
incrementByFunction ==
    /\ \E n \in 1..MaxSetterCalls :
        /\ Len(countQueue) + n <= MaxQueued
        /\ countQueue' = countQueue \o Repeat(FunctionalUpdate, n)
    /\ UNCHANGED <<count, lastRender, outsideCounter>>

\* The next render: the queued updates are applied in order
counterRender ==
    /\ countQueue # <<>>
    /\ ApplyCountQueue(count, countQueue) <= MaxCount
    /\ count' = ApplyCountQueue(count, countQueue)
    /\ lastRender' = [from |-> count, updates |-> countQueue]
    /\ countQueue' = <<>>
    /\ UNCHANGED outsideCounter

CounterNext == incrementByValue \/ incrementByFunction \/ counterRender

SpecCounter == CounterInit /\ [][CounterNext]_vars

----------------------------------------------------------------------------
(* Claims about batched state updates *)

\* C19: when an event handler calls the setter n times before the next
\* render, n functional updates setCount(prev => prev + 1) increase count by
\* n, whereas n value updates setCount(count + 1) increase count by exactly 1
\* (for n = 3: +3 versus +1).
C19_BatchedUpdates ==
    \A n \in 1..MaxQueued :
        /\ (countQueue = <<>> /\ lastRender.updates = Repeat(FunctionalUpdate, n))
              => count = lastRender.from + n
        /\ (countQueue = <<>> /\ lastRender.updates = Repeat(ValueUpdate(lastRender.from), n))
              => count = lastRender.from + 1

\* Three functional updates took the count from 0 to 3, and the render after
\* it applied three value updates setCount(3 + 1): the count is 4
C19_Witness ==
    /\ countQueue = <<>>
    /\ lastRender = [from |-> 3, updates |-> Repeat(ValueUpdate(3), 3)]
    /\ count = 4

----------------------------------------------------------------------------
(* The theme provider of chapter 15: Example 1 (four themes, shown on the   *)
(* root element and persisted by an effect) with the initialiser and the    *)
(* system-change listener of Example 6, as Step 3 of the project task asks. *)
(* It is the provider "chapter 15" of the variables of ThemeProvider.       *)

\* const themes = ["light", "dark", "ocean", "sunset"] as const
themes == {"light", "dark", "ocean", "sunset"}

\* What 'taskflow-theme' holds on a first visit: no theme the user has chosen
FirstVisitStorages ==
    {<<>>} \cup {THEME_KEY :> text : text \in {RawText("blue"), <<>>}}

\* localStorage.getItem("taskflow-theme") is truthy: an item that is not the
\* empty string
StoredTruthy == HasItem(THEME_KEY) /\ localStorage[THEME_KEY] # <<>>

\* getInitialTheme(): the stored theme when it is one of themes, else the
\* system preference
getInitialTheme(dark) ==
    IF StoredTruthy /\ localStorage[THEME_KEY] \in {RawText(t) : t \in themes}
    THEN localStorage[THEME_KEY][1]
    ELSE IF dark THEN "dark"
    ELSE "light"

\* The listener of the media query is added by an effect of the mount, after
\* the effect on [theme] has run for the first time
ListenerAdded == rootTheme # UNDEFINED

SystemThemeInit ==
    /\ themeProvider = "chapter 15"
    /\ prefersDark \in BOOLEAN
    /\ localStorage \in FirstVisitStorages
    /\ theme = getInitialTheme(prefersDark)
    /\ themeSyncPending = TRUE
    /\ themeCalls = 0
    /\ rootTheme = UNDEFINED
    /\ ThemeAlone

\* useEffect(() => { <set the class of the theme on the root element>;
\* localStorage.setItem("taskflow-theme", theme) }, [theme]); on mount the
\* effect of Example 6 runs after it and adds the listener
themeEffects ==
    /\ themeSyncPending
    /\ rootTheme' = theme
    /\ localStorage' = SetItem(THEME_KEY, RawText(theme))
    /\ themeSyncPending' = FALSE
    /\ UNCHANGED <<themeProvider, theme, prefersDark, themeCalls, outsideTheme>>

\* The user picks a theme in the theme switcher: setTheme(t)
setTheme ==
    /\ ~themeSyncPending
    /\ themeCalls < MaxThemeCalls
    /\ \E t \in themes :
        /\ theme' = t
        /\ themeSyncPending' = ThemeSyncNeeded(theme, t)
    /\ themeCalls' = themeCalls + 1
    /\ UNCHANGED <<localStorage, themeProvider, prefersDark, rootTheme, outsideTheme>>

\* The system switches its colour scheme: the "change" event of the media
\* query runs handler, if the listener has been added
handler ==
    /\ ~themeSyncPending \/ ~ListenerAdded
    /\ prefersDark' = ~prefersDark
    /\ theme' = IF ListenerAdded /\ ~StoredTruthy
                THEN (IF prefersDark' THEN "dark" ELSE "light")
                ELSE theme
    /\ themeSyncPending' = (themeSyncPending \/ ThemeSyncNeeded(theme, theme'))
    /\ UNCHANGED <<localStorage, themeProvider, themeCalls, rootTheme, outsideTheme>>

\* A page refresh: the provider mounts again
systemThemeReload ==
    /\ theme' = getInitialTheme(prefersDark)
    /\ themeSyncPending' = TRUE
    /\ rootTheme' = UNDEFINED
    /\ UNCHANGED <<localStorage, themeProvider, prefersDark, themeCalls, outsideTheme>>

SystemThemeNext == themeEffects \/ setTheme \/ handler \/ systemThemeReload

SpecSystemTheme == SystemThemeInit /\ [][SystemThemeNext]_vars

----------------------------------------------------------------------------
(* Claims about the theme provider of chapter 15 *)

\* The system's colour scheme changes while the listener is added
SchemeChangeHeard == prefersDark' # prefersDark /\ ListenerAdded

\* When the user has chosen a theme, a change of the system's colour scheme
\* leaves the theme unchanged
ChosenThemeKept ==
    [][(SchemeChangeHeard /\ themeCalls > 0) => theme' = theme]_vars

\* C20: a prefers-color-scheme change event sets the theme to dark / light
\* when the user has never called setTheme, and leaves the theme unchanged
\* when the user has chosen a theme.
C20_AutoSwitchUnlessChosen ==
    [][SchemeChangeHeard =>
          IF themeCalls = 0
          THEN theme' = (IF prefersDark' THEN "dark" ELSE "light")
          ELSE theme' = theme]_vars

----------------------------------------------------------------------------
(* The theme provider of chapter 15 as Example 1 lists it: the initialiser  *)
(* takes the stored text as the theme, and the effect on [theme] sets the   *)
(* class of the theme on the root element and stores the theme.             *)

\* The string localStorage.getItem returns for a text stored without JSON
RawRead(text) == IF text = <<>> THEN "" ELSE text[1]
\* The text localStorage.setItem(key, s) stores
RawWrite(s) == IF s = "" THEN <<>> ELSE RawText(s)

\* (localStorage.getItem("taskflow-theme") as Theme) ?? "light"
Example1Init ==
    IF HasItem(THEME_KEY) THEN RawRead(localStorage[THEME_KEY]) ELSE "light"

\* t === "light" ? "light" : t === "dark" ? "dark" : `theme-${t}`
ThemeClass(t) == IF t \in {"light", "dark"} THEN t ELSE "theme-" \o t

\* The effect without root.classList.remove(...themes.map(...))
ApplyThemeNoRemove(classes, t) ==
    IF t = "light" THEN classes \ {"dark"}
    ELSE IF t = "dark" THEN classes \cup {"dark"}
    ELSE classes \cup {"theme-" \o t}
\* root.classList.remove(...) of the classes of all themes, then the class of
\* the theme is added
ApplyTheme(classes, t) ==
    LET removed == classes \ {ThemeClass(x) : x \in themes}
    IN  IF t = "light" THEN removed \ {"dark"}
        ELSE IF t = "dark" THEN removed \cup {"dark"}
        ELSE removed \cup {"theme-" \o t}

\* The classes of the root element when the page loads
RootClasses == {{}, {"antialiased"}}

MultiThemeInit ==
    /\ themeProvider = "chapter 15, Example 1"
    /\ prefersDark = FALSE
    /\ localStorage \in ThemeStorages
    /\ theme = Example1Init
    /\ themeSyncPending = TRUE
    /\ themeCalls = 0
    /\ rootTheme = UNDEFINED
    /\ classList \in RootClasses
    /\ RootAlone

\* useEffect(() => { ...; localStorage.setItem("taskflow-theme", theme) }, [theme])
multiThemeEffect ==
    /\ themeSyncPending
    /\ classList' = ApplyTheme(classList, theme)
    /\ rootTheme' = theme
    /\ localStorage' = SetItem(THEME_KEY, RawWrite(theme))
    /\ themeSyncPending' = FALSE
    /\ UNCHANGED <<themeProvider, theme, prefersDark, themeCalls, outsideRoot>>

\* The user selects a theme in the theme switcher: setTheme(t)
selectTheme ==
    /\ ~themeSyncPending
    /\ themeCalls < MaxThemeCalls
    /\ \E t \in themes :
        /\ theme' = t
        /\ themeSyncPending' = ThemeSyncNeeded(theme, t)
    /\ themeCalls' = themeCalls + 1
    /\ UNCHANGED <<localStorage, themeProvider, prefersDark, rootTheme, classList, outsideRoot>>

\* A page refresh: a new document, and the provider mounts again
multiThemeReload ==
    /\ theme' = Example1Init
    /\ themeSyncPending' = TRUE
    /\ rootTheme' = UNDEFINED
    /\ classList' \in RootClasses
    /\ UNCHANGED <<localStorage, themeProvider, prefersDark, themeCalls, outsideRoot>>

MultiThemeNext == multiThemeEffect \/ selectTheme \/ multiThemeReload

SpecMultiTheme == MultiThemeInit /\ [][MultiThemeNext]_vars

----------------------------------------------------------------------------
(* Claims about the provider of Example 1 *)

\* The class a theme is shown by: none for light, 'dark' for dark,
\* 'theme-<name>' otherwise
ClassesFor(t) ==
    IF t = "light" THEN {} ELSE IF t = "dark" THEN {"dark"} ELSE {"theme-" \o t}

\* C21: after the effect has run, for any sequence of setTheme calls over
\* {light, dark, ocean, sunset}, the root element carries the class of the
\* current theme and no class belonging to any other theme, and
\* localStorage['taskflow-theme'] equals the current theme.
C21_ThemeClassApplied ==
    ~themeSyncPending =>
        /\ ClassesFor(theme) \subseteq classList
        /\ \A t \in themes \ {theme} : ClassesFor(t) \cap classList = {}
        /\ "light" \notin classList
        /\ HasItem(THEME_KEY) /\ RawRead(localStorage[THEME_KEY]) = theme

\* The user went from ocean to dark to sunset: only 'theme-sunset' is left of
\* the classes of the themes
C21_Witness ==
    /\ ~themeSyncPending /\ themeCalls = 3
    /\ theme = "sunset"
    /\ classList = {"antialiased", "theme-sunset"}
    /\ localStorage[THEME_KEY] = RawText("sunset")


\* C28: in the provider of Example 1 the theme is always one of the four
\* declared themes 'light', 'dark', 'ocean', 'sunset', for every initial
\* content of localStorage['taskflow-theme'] and every sequence of
\* theme-switcher selections.
C28_ThemeIsDeclared == theme \in themes

----------------------------------------------------------------------------
(* Form actions (chapter 8): QuickAdd, whose action validates the title,    *)
(* waits and calls addTask; and createTaskAction, which validates the title *)
(* and posts it. An action is submitted when no action is pending.          *)

\* The most submits with a non-blank title a run makes
MaxSubmits == 2

QuickForms == {"QuickAdd", "createTaskAction"}

\* The error the action returns before it awaits anything, or null
\* QuickAdd: if (!title.trim()) return "Title cannot be empty"
\* createTaskAction: if (!title || title.trim().length === 0) return { error: "Title is required" }
ValidateNoTrim(form, t) ==
    IF t # <<>> THEN NullString
    ELSE IF form = "QuickAdd" THEN "Title cannot be empty" ELSE "Title is required"
Validate(form, t) ==
    IF Trim(t) # <<>> THEN NullString
    ELSE IF form = "QuickAdd" THEN "Title cannot be empty" ELSE "Title is required"

\* addTask({ title: title.trim(), priority: "medium", status: "todo" })
QuickTask(t) == [title |-> Trim(t), priority |-> "medium", status |-> "todo"]

\* body: JSON.stringify({ title })
PostBody(t) == [title |-> t]

QuickInit ==
    /\ quickForm \in QuickForms
    /\ formTitle = <<>>
    /\ actionState = NullString
    /\ actionPending = NoPending
    /\ addTaskCalls = <<>>
    /\ posts = <<>>
    /\ QuickAlone

\* <form action={formAction}> is submitted: the action runs up to its await
formAction ==
    /\ actionPending = NoPending
    /\ Len(addTaskCalls) + Len(posts) < MaxSubmits
    /\ \E t \in InputTexts :
        /\ formTitle' = t
        /\ IF Validate(quickForm, t) # NullString
           THEN /\ actionState' = Validate(quickForm, t)
                /\ UNCHANGED <<actionPending, posts>>
           ELSE /\ actionPending' = [pending |-> TRUE, title |-> t]
                /\ posts' = IF quickForm = "createTaskAction"
                            THEN Append(posts, PostBody(t)) ELSE posts
                /\ UNCHANGED actionState
    /\ UNCHANGED <<quickForm, addTaskCalls, outsideQuick>>

\* The timeout of QuickAdd is over: addTask(...); return null
timeoutOver ==
    /\ quickForm = "QuickAdd"
    /\ actionPending # NoPending
    /\ addTaskCalls' = Append(addTaskCalls, QuickTask(actionPending.title))
    /\ actionState' = NullString
    /\ actionPending' = NoPending
    /\ UNCHANGED <<quickForm, formTitle, posts, outsideQuick>>

\* The fetch of createTaskAction settles: return { error: null }, or the
\* catch returns { error: "Failed to create task. Try again." }
fetchSettles ==
    /\ quickForm = "createTaskAction"
    /\ actionPending # NoPending
    /\ \E ok \in BOOLEAN :
          actionState' = IF ok THEN NullString ELSE "Failed to create task. Try again."
    /\ actionPending' = NoPending
    /\ UNCHANGED <<quickForm, formTitle, addTaskCalls, posts, outsideQuick>>

QuickNext == formAction \/ timeoutOver \/ fetchSettles

SpecQuick == QuickInit /\ [][QuickNext]_vars

----------------------------------------------------------------------------
(* Claims about the form actions *)

\* A submit with a blank title returns the error of the form and neither
\* calls addTask nor issues a request
BlankRejected ==
    [][(actionPending = NoPending /\ actionPending' = NoPending
            /\ <<formTitle, actionState>>' # <<formTitle, actionState>>) =>
          /\ Trim(formTitle') = <<>>
          /\ actionState' = (IF quickForm = "QuickAdd" THEN "Title cannot be empty"
                             ELSE "Title is required")
          /\ addTaskCalls' = addTaskCalls /\ posts' = posts]_vars

\* addTask is called only by the action of a non-blank title, once, with the
\* trimmed title, and the state it returns is null
NonBlankAddedOnce ==
    /\ [][(quickForm = "QuickAdd" /\ actionPending # NoPending /\ actionPending' = NoPending) =>
            /\ Trim(actionPending.title) # <<>>
            /\ addTaskCalls' = Append(addTaskCalls, QuickTask(actionPending.title))
            /\ actionState' = NullString]_vars
    /\ [][addTaskCalls' # addTaskCalls => actionPending # NoPending]_vars
    /\ [][posts' # posts => Trim(formTitle') # <<>>]_vars

\* C22: when the submitted title is empty or whitespace-only, the QuickAdd
\* action returns the error 'Title cannot be empty' and addTask is not called
\* (createTaskAction likewise returns 'Title is required' without issuing the
\* request); when the title is non-blank, addTask is called exactly once with
\* the trimmed title and the resulting error state is null.
C22_QuickAddRejectsBlank == BlankRejected /\ NonBlankAddedOnce

\* QuickAdd: " a" was submitted, the timeout is over, and addTask has been
\* called once, with "a"
C22_Witness ==
    /\ quickForm = "QuickAdd"
    /\ formTitle = <<" ", "a">>
    /\ actionPending = NoPending /\ actionState = NullString
    /\ addTaskCalls = <<[title |-> <<"a">>, priority |-> "medium", status |-> "todo"]>>

----------------------------------------------------------------------------
(* taskSchema (chapter 8, src/schemas/task.ts): the checks of the title,    *)
(* run on the text of the title field when the form is validated            *)

\* The longest text typed into the title field
MaxTyped == 102

\* title: z.string().min(1, ...)
TITLE_MIN == 1
\* .max(100, ...)
TITLE_MAX == 100

\* The check that a title is under TITLE_MAX characters long
TitleIssueUnder(t) ==
    IF Len(t) < TITLE_MIN THEN "Title is required"
    ELSE IF Len(t) >= TITLE_MAX THEN "Title must be under 100 characters"
    ELSE NullString
\* z.string().min(1, "Title is required").max(100, "Title must be under 100
\* characters"): min reports a length below 1, max a length above 100
TitleIssue(t) ==
    IF Len(t) < TITLE_MIN THEN "Title is required"
    ELSE IF Len(t) > TITLE_MAX THEN "Title must be under 100 characters"
    ELSE NullString

SchemaInit ==
    /\ fieldTitle = <<>>
    /\ parsedTitle = <<>>
    /\ titleIssue = UNDEFINED
    /\ SchemaAlone

\* The user types a character into the title field
typeCharacter ==
    /\ Len(fieldTitle) < MaxTyped
    /\ \E c \in Chars : fieldTitle' = Append(fieldTitle, IF fieldTitle = <<>> THEN c ELSE "a")
    /\ UNCHANGED <<parsedTitle, titleIssue, outsideSchema>>

\* The user deletes the last character
deleteCharacter ==
    /\ fieldTitle # <<>>
    /\ fieldTitle' = SubSeq(fieldTitle, 1, Len(fieldTitle) - 1)
    /\ UNCHANGED <<parsedTitle, titleIssue, outsideSchema>>

\* The form is validated: taskSchema parses the data of the form
parseTitle ==
    /\ parsedTitle' = fieldTitle
    /\ titleIssue' = TitleIssue(fieldTitle)
    /\ UNCHANGED <<fieldTitle, outsideSchema>>

SchemaNext == typeCharacter \/ deleteCharacter \/ parseTitle

SpecSchema == SchemaInit /\ [][SchemaNext]_vars

----------------------------------------------------------------------------
(* Claims about taskSchema *)

----------------------------------------------------------------------------
(* Claims about useLocalStorage: a write that throws *)

\* The effect ran in the step, and its localStorage.setItem threw
WriteThrew == effectPending /\ ~effectPending' /\ writeFailed'

\* C24: when localStorage.setItem throws (quota exceeded, private browsing),
\* the hook does not throw, the in-memory value still becomes the new value,
\* and the value stored under key is left as it was before the failed write.
C24_WriteFailsSilently ==
    [][WriteThrew =>
          /\ value' = value /\ value' # THROWN
          /\ lastSet # UNDEFINED => value' = lastSet
          /\ localStorage' = localStorage]_vars

\* The setter was called with "new value" and the write threw: the hook
\* returns "new value", and "stored value" is still what is stored under key
C24_Witness ==
    /\ ~effectPending /\ writeFailed
    /\ lastSet = "new value" /\ value = "new value"
    /\ HasItem(key) /\ localStorage[key] = JsonStringify(TString, "stored value")

----------------------------------------------------------------------------
(* The two listings of taskReducer in chapter 5, the one of the Concepts    *)
(* section and the one of the Project Task, applied to the same state and   *)
(* the same action, with the same id and date generated for ADD_TASK.       *)

ListingsInit ==
    /\ tasks = SEED_TASKS
    /\ filter = "all"
    /\ lastAction = NoAction
    /\ conceptsResult = NoResult
    /\ projectResult = NoResult
    /\ ListingsAlone

\* Both listings are evaluated on (state, action); the state becomes what the
\* listing of the Project Task returned
reduceBoth ==
    \E action \in PurityActions, uuid \in EvalUuids, now \in Clock :
        LET state == [tasks |-> tasks, filter |-> filter]
            concepts == taskReducerConcepts(state, action, uuid, NewDate(now))
            project == taskReducer(state, action, uuid, NewDate(now))
        IN /\ Len(concepts.tasks) <= MaxReducerTasks
           /\ conceptsResult' = concepts
           /\ projectResult' = project
           /\ tasks' = project.tasks
           /\ filter' = project.filter
           /\ lastAction' = action
           /\ UNCHANGED outsideListings

ListingsNext == reduceBoth

SpecListings == ListingsInit /\ [][ListingsNext]_vars

----------------------------------------------------------------------------
(* Claims about the two listings *)

\* C25: the two listings of taskReducer are the same reducer: for every
\* state and every action ADD_TASK, TOGGLE_TASK, DELETE_TASK, SET_FILTER and
\* LOAD_TASKS they return equal states (up to the generated id and timestamp
\* of ADD_TASK).
C25_ListingsAgree == conceptsResult = projectResult

\* The two listings return equal states for every action but LOAD_TASKS
ListingsAgreeButLoad ==
    lastAction.type # "LOAD_TASKS" => conceptsResult = projectResult

----------------------------------------------------------------------------
(* taskReducer (chapter 5, Step 2) given every action, one that is none of  *)
(* TaskAction included                                                      *)

\* An action of a type the switch has no case for
UnknownActions == {[type |-> "RESET"]}

\* dispatch(action), for the actions of TaskAction and the unknown one
dispatchAny ==
    \E action \in PurityActions \cup UnknownActions, uuid \in EvalUuids, now \in Clock :
        LET next == taskReducer([tasks |-> tasks, filter |-> filter], action, uuid, NewDate(now)) IN
        /\ action.type = "ADD_TASK" => uuid \notin {t.id : t \in Range(tasks)}
        /\ Len(next.tasks) <= MaxReducerTasks
        /\ tasks' = next.tasks
        /\ filter' = next.filter
        /\ lastAction' = action
        /\ UNCHANGED <<localStorage, persistPending, outsideApp>>

FramesNext == dispatchAny

SpecFrames == ReducerInit /\ [][FramesNext]_vars

----------------------------------------------------------------------------
(* Claims about what taskReducer leaves unchanged *)

\* The id of the action dispatched in the step matches a task
IdMatches == \E i \in DOMAIN tasks : tasks[i].id = lastAction'.payload.id

\* after is before with the completed flag negated of exactly the tasks whose
\* id is id, and nothing else changed
OnlyFlagsOf(before, after, id) ==
    /\ Len(after) = Len(before)
    /\ \A i \in DOMAIN before :
          /\ after[i].id = before[i].id
          /\ after[i].title = before[i].title
          /\ after[i].createdAt = before[i].createdAt
          /\ (after[i].completed # before[i].completed) <=> (before[i].id = id)

\* C26: SET_FILTER leaves tasks unchanged; ADD_TASK, TOGGLE_TASK, DELETE_TASK
\* and LOAD_TASKS leave filter unchanged; TOGGLE_TASK changes only the
\* completed flag of the tasks whose id matches and preserves list length and
\* order; TOGGLE_TASK or DELETE_TASK with an id that matches no task leaves
\* the task list's contents unchanged; an unrecognised action returns the
\* state it was given.
C26_ReducerFrames ==
    [][LET type == lastAction'.type IN
       /\ type = "SET_FILTER" => tasks' = tasks
       /\ type \in {"ADD_TASK", "TOGGLE_TASK", "DELETE_TASK", "LOAD_TASKS"} => filter' = filter
       /\ type = "TOGGLE_TASK" => OnlyFlagsOf(tasks, tasks', lastAction'.payload.id)
       /\ IF type \in {"TOGGLE_TASK", "DELETE_TASK"}
          THEN ~IdMatches => tasks' = tasks
          ELSE TRUE
       /\ type \notin {"ADD_TASK", "TOGGLE_TASK", "DELETE_TASK", "LOAD_TASKS", "SET_FILTER"}
             => (tasks' = tasks /\ filter' = filter)]_vars

\* Under the filter 'active', the second seed task was toggled last: it is
\* the only task whose flag differs from the seed, and the order is kept
C26_Witness ==
    /\ filter = "active"
    /\ lastAction = [type |-> "TOGGLE_TASK", payload |-> [id |-> "2"]]
    /\ Len(tasks) = 2
    /\ tasks[1] = SEED_TASKS[1]
    /\ tasks[2] = [SEED_TASKS[2] EXCEPT !.completed = ~@]

----------------------------------------------------------------------------
(* LoadApiTasks (chapter 4, Step 3): a button whose handler calls           *)
(* fetchTasks(), which resolves to MOCK_TASKS or rejects after its delay    *)

\* The most clicks on the button a run makes
MaxRequests == 6

\* A button that is never disabled
ButtonNeverDisabled(isLoading) == FALSE
\* <button onClick={handleLoad} disabled={loading}>
ButtonDisabled(isLoading) == isLoading

\* throw new Error('Failed to fetch tasks from server')
FETCH_ERROR == "Failed to fetch tasks from server"

LoadInit ==
    /\ apiLoading = FALSE
    /\ apiError = NullString
    /\ inFlight = 0
    /\ outcomes = <<>>
    /\ onLoadCalls = <<>>
    /\ LoadAlone

\* handleLoad: setLoading(true); setError(null); fetchTasks()
handleLoad ==
    /\ ~ButtonDisabled(apiLoading)
    /\ Len(outcomes) + inFlight < MaxRequests
    /\ apiLoading' = TRUE
    /\ apiError' = NullString
    /\ inFlight' = inFlight + 1
    /\ UNCHANGED <<outcomes, onLoadCalls, outsideLoad>>

\* fetchTasks() resolves: .then((tasks) => { onLoad(tasks); setLoading(false) })
fetchTasksResolves ==
    /\ inFlight > 0
    /\ inFlight' = inFlight - 1
    /\ outcomes' = Append(outcomes, "resolved")
    /\ onLoadCalls' = Append(onLoadCalls, MOCK_TASKS)
    /\ apiLoading' = FALSE
    /\ UNCHANGED <<apiError, outsideLoad>>

\* fetchTasks() rejects: .catch((err) => { setError(err.message); setLoading(false) })
fetchTasksRejects ==
    /\ inFlight > 0
    /\ inFlight' = inFlight - 1
    /\ outcomes' = Append(outcomes, "rejected")
    /\ apiError' = FETCH_ERROR
    /\ apiLoading' = FALSE
    /\ UNCHANGED <<onLoadCalls, outsideLoad>>

LoadNext == handleLoad \/ fetchTasksResolves \/ fetchTasksRejects

SpecLoad == LoadInit /\ [][LoadNext]_vars

\* A call of fetchTasks() settles: its delay ends
SpecLoadFair ==
    /\ SpecLoad
    /\ WF_vars(fetchTasksResolves \/ fetchTasksRejects)

----------------------------------------------------------------------------
(* Claims about LoadApiTasks *)

\* The number of calls of fetchTasks() that resolved
Resolved == Cardinality({i \in DOMAIN outcomes : outcomes[i] = "resolved"})

\* At most one request is in flight, and loading is true exactly while it is;
\* onLoad has been called once for each resolved request; error is not null
\* exactly when the request that settled last rejected and none has been
\* started since
RequestState ==
    /\ inFlight <= 1
    /\ apiLoading <=> inFlight = 1
    /\ Len(onLoadCalls) = Resolved
    /\ apiError # NullString <=>
          (outcomes # <<>> /\ outcomes[Len(outcomes)] = "rejected" /\ inFlight = 0)

\* C27: because the button is disabled while loading, at most one fetchTasks
\* request is in flight at any time; every started request eventually sets
\* loading back to false whether it succeeds or fails; onLoad is called
\* exactly once per successful request and never for a failed one; and error
\* is non-null exactly when the most recent completed request failed and no
\* new request has started since.
C27_LoadRequestState ==
    /\ []RequestState
    /\ [][onLoadCalls' # onLoadCalls =>
            (onLoadCalls' = Append(onLoadCalls, MOCK_TASKS)
             /\ outcomes' = Append(outcomes, "resolved"))]_vars
    /\ (apiLoading ~> ~apiLoading)

\* A request rejected and the next, started after it, resolved: onLoad has
\* been called once and the error is gone
C27_Witness ==
    /\ outcomes = <<"rejected", "resolved">>
    /\ inFlight = 0 /\ ~apiLoading
    /\ apiError = NullString
    /\ onLoadCalls = <<MOCK_TASKS>>

----------------------------------------------------------------------------
(* TagManager (Example 3: Array State). Its handlers read tags and input of *)
(* the render they were created in; what they pass to setTags and setInput  *)
(* is queued and applied at the next render.                                *)

\* The most tags the list holds
MaxTags == 4
\* The most updates of tags queued before a render
MaxTagUpdates == 2
\* The longest text typed into the input
MaxTagLen == 2

TagChars == {" ", "a", "A"}

RECURSIVE TagTexts(_)
\* Every text of at most n characters of TagChars
TagTexts(n) ==
    IF n = 0 THEN {<<>>}
    ELSE LET shorter == TagTexts(n - 1)
         IN shorter \cup {Append(s, c) : s \in shorter, c \in TagChars}

\* String.prototype.toLowerCase
ToLowerCase(s) == [i \in DOMAIN s |-> IF s[i] = "A" THEN "a" ELSE s[i]]

\* useState<string[]>(['react', 'typescript'])
INITIAL_TAGS == << <<"r", "e", "a", "c", "t">>,
                   <<"t", "y", "p", "e", "s", "c", "r", "i", "p", "t">> >>

\* (prev) => [...prev, trimmed] and (prev) => prev.filter((t) => t !== tag)
ApplyTagUpdate(prev, u) ==
    IF u.add THEN Append(prev, u.tag)
    ELSE LET Keep(t) == t # u.tag IN SelectSeq(prev, Keep)

RECURSIVE ApplyTagUpdates(_, _)
ApplyTagUpdates(prev, q) ==
    IF q = <<>> THEN prev ELSE ApplyTagUpdates(ApplyTagUpdate(prev, Head(q)), Tail(q))

TagsInit ==
    /\ tags = INITIAL_TAGS
    /\ input = <<>>
    /\ tagUpdates = <<>>
    /\ inputUpdates = <<>>
    /\ TagsAlone

\* onChange={(e) => setInput(e.target.value)}
tagInputChange ==
    /\ \E text \in TagTexts(MaxTagLen) : inputUpdates' = <<text>>
    /\ UNCHANGED <<tags, input, tagUpdates, outsideTags>>

\* addTag, with the tags and the input of the latest render
addTag ==
    LET trimmed == ToLowerCase(Trim(input)) IN
    /\ Len(tagUpdates) < MaxTagUpdates
    /\ IF trimmed # <<>> /\ trimmed \notin Range(tags)
       THEN /\ tagUpdates' = Append(tagUpdates, [add |-> TRUE, tag |-> trimmed])
            /\ inputUpdates' = << <<>> >>
       ELSE UNCHANGED <<tagUpdates, inputUpdates>>
    /\ UNCHANGED <<tags, input, outsideTags>>

\* removeTag(tag), for a tag of the latest render
removeTag ==
    /\ Len(tagUpdates) < MaxTagUpdates
    /\ \E tag \in Range(tags) :
          tagUpdates' = Append(tagUpdates, [add |-> FALSE, tag |-> tag])
    /\ UNCHANGED <<tags, input, inputUpdates, outsideTags>>

\* The next render: the queued updates are applied
tagRender ==
    /\ tagUpdates # <<>> \/ inputUpdates # <<>>
    /\ Len(ApplyTagUpdates(tags, tagUpdates)) <= MaxTags
    /\ tags' = ApplyTagUpdates(tags, tagUpdates)
    /\ input' = IF inputUpdates # <<>> THEN inputUpdates[Len(inputUpdates)] ELSE input
    /\ tagUpdates' = <<>>
    /\ inputUpdates' = <<>>
    /\ UNCHANGED outsideTags

TagsNext == tagInputChange \/ addTag \/ removeTag \/ tagRender

SpecTags == TagsInit /\ [][TagsNext]_vars

----------------------------------------------------------------------------
(* Claims about TagManager *)

----------------------------------------------------------------------------
(* The footer of the course site (themeConfig.footer of the site            *)
(* configuration) beside its sidebar. A link of the footer leads to the     *)
(* path it names; the sidebar stays on every page.                          *)

\* themeConfig.footer.links
footerLinks ==
    << [title |-> "Course",
        items |-> << [label |-> "Part 1: React Fundamentals", to |-> "/category/part-1-react-fundamentals"],
                     [label |-> "Part 2: Tailwind CSS", to |-> "/category/part-2-tailwind-css"],
                     [label |-> "Part 3: shadcn/ui", to |-> "/category/part-3-shadcnui"] >>],
       [title |-> "Resources",
        items |-> << [label |-> "TaskFlow Companion Repo", href |-> "https://github.com/bobby-openclaw/taskflow-app"],
                     [label |-> "React Docs", href |-> "https://react.dev"],
                     [label |-> "Tailwind Docs", href |-> "https://tailwindcss.com"] >>],
       [title |-> "More",
        items |-> << [label |-> "GitHub", href |-> "https://github.com/bobby-openclaw/react-learning"] >>] >>

\* The items of the footer column titled 'Course'
CourseLinks ==
    (CHOOSE column \in Range(footerLinks) : column.title = "Course").items

\* The lower-case letter of an upper-case letter of the labels
LowerOf ==
    [c \in {"P", "R", "F", "T", "C", "S"} |->
        CASE c = "P" -> "p" [] c = "R" -> "r" [] c = "F" -> "f"
          [] c = "T" -> "t" [] c = "C" -> "c" [] c = "S" -> "s"]

\* The characters a slug keeps as they are
SlugKept ==
    {"a", "b", "c", "d", "e", "f", "g", "h", "i", "j", "k", "l", "m", "n", "o", "p", "q",
     "r", "s", "t", "u", "v", "w", "x", "y", "z", "0", "1", "2", "3", "4", "5", "6", "7",
     "8", "9", "-"}

\* The slug of a label: lower case, a hyphen for each space, every other
\* character that is no letter, digit or hyphen dropped
RECURSIVE Slug(_)
Slug(label) ==
    IF label = "" THEN ""
    ELSE LET c == SubSeq(label, 1, 1)
             rest == Slug(SubSeq(label, 2, Len(label)))
         IN  IF c \in SlugKept THEN c \o rest
             ELSE IF c \in DOMAIN LowerOf THEN LowerOf[c] \o rest
             ELSE IF c = " " THEN "-" \o rest
             ELSE rest

\* The page of a category of the sidebar: the generated index a category
\* with a link has at /category/<slug of its label>; a category without a
\* link only collapses and expands and has no page
CategoryPage(category) ==
    IF "link" \in DOMAIN category THEN "/category/" \o Slug(category.label) ELSE UNDEFINED

FooterInit ==
    /\ activeDoc = SidebarDocIds[1]
    /\ collapsed = [label \in {Categories[i].label : i \in DOMAIN Categories} |->
                       (CHOOSE cat \in Range(Categories) : cat.label = label).collapsed]
    /\ followed = UNDEFINED
    /\ FooterAlone

\* A click on a link of the Course column of the footer: the site goes to
\* the path of the link, and no document is shown
followCourseLink ==
    /\ \E i \in DOMAIN CourseLinks :
          /\ followed # CourseLinks[i].to
          /\ followed' = CourseLinks[i].to
    /\ activeDoc' = UNDEFINED
    /\ UNCHANGED <<collapsed, outsideFooter>>

\* A click on a category of the sidebar: it collapses or expands, on any page
footerToggleCategory ==
    /\ \E label \in DOMAIN collapsed : collapsed' = [collapsed EXCEPT ![label] = ~@]
    /\ UNCHANGED <<activeDoc, followed, outsideFooter>>

\* A click on a document the sidebar shows, on any page
footerOpenDoc ==
    /\ \E id \in Range(SidebarDocIds) :
          /\ IF CategoryOf(id) = UNDEFINED THEN TRUE ELSE ~collapsed[CategoryOf(id)]
          /\ id # activeDoc
          /\ activeDoc' = id
    /\ followed' = UNDEFINED
    /\ UNCHANGED <<collapsed, outsideFooter>>

FooterNext == followCourseLink \/ footerToggleCategory \/ footerOpenDoc

SpecFooter == FooterInit /\ [][FooterNext]_vars

----------------------------------------------------------------------------
(* Claims about the footer *)

\* The footer item has the label of a category of courseSidebar and leads
\* to the page of that category
MatchesCategory(item) ==
    \E k \in DOMAIN Categories :
        /\ item.label = Categories[k].label
        /\ item.to = CategoryPage(Categories[k])

\* C30: every link of the Course column of the footer has a label equal to
\* the label of a courseSidebar category and a target that is the page of
\* that same category; so the path a followed footer link leads to is the
\* page of a category.
C30_FooterMatchesSidebar ==
    /\ \A i \in DOMAIN CourseLinks : MatchesCategory(CourseLinks[i])
    /\ followed # UNDEFINED =>
          \E k \in DOMAIN Categories : followed = CategoryPage(Categories[k])

\* The labels of the Course links of the footer that no category of
\* courseSidebar carries
ForeignLabels ==
    {CourseLinks[i].label : i \in DOMAIN CourseLinks} \ {Categories[k].label : k \in DOMAIN Categories}

\* The footer names 'Part 2: Tailwind CSS' and 'Part 3: shadcn/ui', which
\* courseSidebar calls Part 3 and Part 4; the targets are the slugs of the
\* labels of the footer
FooterLabelsAsFound ==
    /\ ForeignLabels = {"Part 2: Tailwind CSS", "Part 3: shadcn/ui"}
    /\ \A i \in DOMAIN CourseLinks :
          CourseLinks[i].to = "/category/" \o Slug(CourseLinks[i].label)

====
